---- MODULE Spec2Model ----
(***************************************************************************)
(* Production planning and rollback over a bill-of-materials graph          *)
(* (ingredients -> recipes -> products).                                    *)
(*                                                                          *)
(* Quantities are real numbers in the source.  The model keeps them exact   *)
(* as fixed-point integers: a stock or needed quantity x is stored as       *)
(* x * Scale, a Portion quantity p as p * PDen.  Every Portion quantity of  *)
(* the modelled graphs is a multiple of 1/PDen and no graph is deeper than  *)
(* three Portions, so every product computed by the code is a multiple of   *)
(* 1/Scale and the fixed-point arithmetic equals the code's (binary         *)
(* floating point is exact on these dyadic values).                         *)
(***************************************************************************)
EXTENDS Integers, Sequences, FiniteSets, TLC

\* ------------------------------------------------------------------ bounds
\* fixed point: Portion quantities are multiples of 1/PDen, stocks of 1/Scale
PDen == 2
Scale == PDen * PDen * PDen
MaxQty == 2
MaxOrders == 3
MaxPureQty == 5
MaxBoundArg == 6
MaxNeedHalves == 5
MaxDagNodes == 3
MaxDagOps == 6
MaxCostDepth == 5
MaxCalls == 3

\* Program constant: the cap of the binary search (src/domain/stock.ts:410).
MaxBoundCap == 1000000

\* --------------------------------------------------------------- Map<K,V>
\* map.get(k) || 0
Get(m, k) == IF k \in DOMAIN m THEN m[k] ELSE 0

\* map.set(k, v)
Put(m, k, v) == [x \in (DOMAIN m) \cup {k} |-> IF x = k THEN v ELSE m[x]]

EmptyMap == [x \in {} |-> 0]

Min(a, b) == IF a < b THEN a ELSE b

Max(a, b) == IF a > b THEN a ELSE b

\* Math.ceil on a fixed-point value
Ceil(x) == (0 - ((0 - x) \div Scale)) * Scale

\* portion.quantity * x, x fixed-point
MulPortion(pq, x) == (pq * x) \div PDen

\* Math.floor((low + high) / 2)
Mid(low, high) == (low + high) \div 2

\* ----------------------------------------------------------------- graphs
Ingredient == [type |-> "ingredient", inputs |-> << >>]

Recipe(inputs) == [type |-> "recipe", inputs |-> inputs]

Product(inputs) == [type |-> "product", inputs |-> inputs]

Portion(nodeId, quantity) == [nodeId |-> nodeId, quantity |-> quantity]

\* createTestGraph plus product_p2 (1 product_p1 per unit)
GraphTest ==
  [nodes |-> [n \in {"ing_a", "recipe_r", "product_p1", "product_p2"} |->
     CASE n = "ing_a" -> Ingredient
       [] n = "recipe_r" -> Recipe(<<Portion("ing_a", 2 * PDen)>>)
       [] n = "product_p1" -> Product(<<Portion("recipe_r", 3)>>)
       [] n = "product_p2" -> Product(<<Portion("product_p1", 1 * PDen)>>)]]

\* createTestGraph plus product_p2 consuming 0.5 recipe_r per unit
GraphSurplus ==
  [nodes |-> [n \in {"ing_a", "recipe_r", "product_p1", "product_p2"} |->
     CASE n = "ing_a" -> Ingredient
       [] n = "recipe_r" -> Recipe(<<Portion("ing_a", 2 * PDen)>>)
       [] n = "product_p1" -> Product(<<Portion("recipe_r", 3)>>)
       [] n = "product_p2" -> Product(<<Portion("recipe_r", 1)>>)]]

\* Bolo scenario: bolo needs 0.5 massa; massa = 1 acucar + 1 farinha + 6 ovo
GraphBolo ==
  [nodes |-> [n \in {"acucar", "farinha", "ovo", "massa", "bolo"} |->
     CASE n \in {"acucar", "farinha", "ovo"} -> Ingredient
       [] n = "massa" -> Recipe(<<Portion("acucar", 1 * PDen),
                                  Portion("farinha", 1 * PDen),
                                  Portion("ovo", 6 * PDen)>>)
       [] n = "bolo" -> Product(<<Portion("massa", 1)>>)]]

\* ingredient -> product, 1 per unit
GraphDirect ==
  [nodes |-> [n \in {"ing_bolo", "bolo"} |->
     CASE n = "ing_bolo" -> Ingredient
       [] n = "bolo" -> Product(<<Portion("ing_bolo", 1 * PDen)>>)]]

\* validation script: p2 needs 2 p1, p1 needs 1.5 r, r needs 2 a
GraphChain ==
  [nodes |-> [n \in {"a", "r", "p1", "p2"} |->
     CASE n = "a" -> Ingredient
       [] n = "r" -> Recipe(<<Portion("a", 2 * PDen)>>)
       [] n = "p1" -> Product(<<Portion("r", 3)>>)
       [] n = "p2" -> Product(<<Portion("p1", 2 * PDen)>>)]]

\* validation script, integer ratios: p1 needs 1 r, r needs 2 a
GraphInteger ==
  [nodes |-> [n \in {"a", "r", "p1"} |->
     CASE n = "a" -> Ingredient
       [] n = "r" -> Recipe(<<Portion("a", 2 * PDen)>>)
       [] n = "p1" -> Product(<<Portion("r", 1 * PDen)>>)]]

\* an intermediate and an ingredient shared by several inputs of one target
GraphShared ==
  [nodes |-> [n \in {"a", "r", "s", "t"} |->
     CASE n = "a" -> Ingredient
       [] n = "r" -> Recipe(<<Portion("a", 1 * PDen)>>)
       [] n = "s" -> Recipe(<<Portion("r", 1), Portion("a", 1)>>)
       [] n = "t" -> Product(<<Portion("r", 1), Portion("s", 3),
                               Portion("a", 1)>>)]]

\* a product whose second Portion names a node that is not in graph.nodes
GraphDangling ==
  [nodes |-> [n \in {"a", "p"} |->
     CASE n = "a" -> Ingredient
       [] n = "p" -> Product(<<Portion("a", 1 * PDen), Portion("ghost", 1 * PDen)>>)]]

\* node inputs that form a cycle: x needs a and t, t needs x
GraphCycle ==
  [nodes |-> [n \in {"a", "x", "t"} |->
     CASE n = "a" -> Ingredient
       [] n = "x" -> Recipe(<<Portion("a", 1 * PDen), Portion("t", 1 * PDen)>>)
       [] n = "t" -> Product(<<Portion("x", 1 * PDen)>>)]]

\* a product that names itself as an input
GraphSelf ==
  [nodes |-> [n \in {"a", "s"} |->
     CASE n = "a" -> Ingredient
       [] n = "s" -> Product(<<Portion("a", 1 * PDen), Portion("s", 1 * PDen)>>)]]

\* a Portion of an intermediate names a node that is not in graph.nodes
GraphBuried ==
  [nodes |-> [n \in {"a", "x", "p"} |->
     CASE n = "a" -> Ingredient
       [] n = "x" -> Recipe(<<Portion("a", 1 * PDen), Portion("ghost", 1 * PDen)>>)
       [] n = "p" -> Product(<<Portion("x", 1 * PDen)>>)]]

Graphs == <<GraphTest, GraphSurplus, GraphBolo, GraphDirect, GraphChain,
            GraphInteger, GraphShared, GraphDangling>>

NodeIds(graph) == DOMAIN graph.nodes

IngredientIds(graph) == {n \in NodeIds(graph) : graph.nodes[n].type = "ingredient"}

\* ------------------------------------------------- simulation working state
\* One record holds the three maps a simulateProduction call works on:
\* currentStock (the caller's map), availableStock (line 181) and
\* stockChanges (line 182), plus the result of the last ensureConsumable.
NewSim(currentStock) ==
  [success |-> TRUE, error |-> "none",
   currentStock |-> currentStock,
   availableStock |-> currentStock,
   stockChanges |-> EmptyMap]

\* availableStock.set(nodeId, v): a write to the private copy only
SetAvailableAliased(st, nodeId, v) ==
  [st EXCEPT !.availableStock = Put(@, nodeId, v),
             !.currentStock = Put(@, nodeId, v)]

SetAvailable(st, nodeId, v) ==
  [st EXCEPT !.availableStock = Put(@, nodeId, v)]

\* stockChanges.set(nodeId, (stockChanges.get(nodeId) || 0) + d)
AddChange(st, nodeId, d) ==
  [st EXCEPT !.stockChanges = Put(@, nodeId, Get(@, nodeId) + d)]

Fail(st, error) == [st EXCEPT !.success = FALSE, !.error = error]

\* Math.ceil(shortfall)
ProduceUnitsFloor(shortfall) == (shortfall \div Scale) * Scale

ProduceUnits(shortfall) == Ceil(shortfall)

RECURSIVE ensureConsumable(_, _, _, _, _)
RECURSIVE ensureInputs(_, _, _, _, _, _)

\* one turn of the for-loop over portions (lines 128-138 and 195-203):
\* return the failure of an input at once, else go on with the next input
NextInput(graph, inputs, i, units, result, visited) ==
  IF ~result.success THEN result
  ELSE ensureInputs(graph, inputs, i + 1, units, result, visited)

\* the for-loop over portions (lines 126-139 and 193-238); each input gets a
\* fresh copy of visited
ensureInputs(graph, inputs, i, units, st, visited) ==
  IF i > Len(inputs) THEN st
  ELSE NextInput(graph, inputs, i, units,
                 ensureConsumable(graph, inputs[i].nodeId,
                                  MulPortion(inputs[i].quantity, units), st, visited),
                 visited)

\* ingredient branch (lines 82-97)
ConsumeIngredientUntracked(st, nodeId, needed, current) ==
  IF current < needed THEN Fail(st, "insufficient")
  ELSE SetAvailable(st, nodeId, current - needed)

ConsumeIngredient(st, nodeId, needed, current) ==
  IF current < needed THEN Fail(st, "insufficient")
  ELSE SetAvailable(AddChange(st, nodeId, 0 - needed), nodeId, current - needed)

\* consume from existing stock (lines 113-118)
ConsumeFromStock(st, nodeId, existingStock, fromStock) ==
  IF fromStock > 0
  THEN AddChange(SetAvailable(st, nodeId, existingStock - fromStock), nodeId, 0 - fromStock)
  ELSE st

\* consume the shortfall from the units just produced (lines 147-158)
ConsumeShortfallRounded(st, nodeId, shortfall, stockAfterProduction) ==
  IF stockAfterProduction < shortfall THEN Fail(st, "internal")
  ELSE AddChange(SetAvailable(st, nodeId, stockAfterProduction - Ceil(shortfall)),
                 nodeId, 0 - Ceil(shortfall))

ConsumeShortfall(st, nodeId, shortfall, stockAfterProduction) ==
  IF stockAfterProduction < shortfall THEN Fail(st, "internal")
  ELSE AddChange(SetAvailable(st, nodeId, stockAfterProduction - shortfall),
                 nodeId, 0 - shortfall)

\* add the produced units to stock (lines 141-145)
AddProduced(st, nodeId, produceUnits, currentAfterInputs) ==
  AddChange(SetAvailable(st, nodeId, currentAfterInputs + produceUnits),
            nodeId, produceUnits)

\* what follows the inputs loop (lines 136-158); st is the state the loop left
AfterInputs(st, nodeId, produceUnits, shortfall) ==
  IF ~st.success THEN st
  ELSE ConsumeShortfall(
         AddProduced(st, nodeId, produceUnits, Get(st.availableStock, nodeId)),
         nodeId, shortfall,
         Get(st.availableStock, nodeId) + produceUnits)

\* produce the shortfall, rounded up to whole units (lines 120-159)
ProduceShortfall(graph, nodeId, inputs, shortfall, st, visited) ==
  IF shortfall > 0
  THEN AfterInputs(ensureInputs(graph, inputs, 1, ProduceUnits(shortfall), st, visited),
                   nodeId, ProduceUnits(shortfall), shortfall)
  ELSE st

\* recipe/product branch (lines 99-161)
ConsumeCompositeProduceAll(graph, nodeId, inputs, quantity, st, visited, existingStock) ==
  ProduceShortfall(graph, nodeId, inputs, quantity, st, visited)

ConsumeComposite(graph, nodeId, inputs, quantity, st, visited, existingStock) ==
  ProduceShortfall(graph, nodeId, inputs,
                   quantity - Min(existingStock, quantity),
                   ConsumeFromStock(st, nodeId, existingStock, Min(existingStock, quantity)),
                   visited)

ensureConsumable(graph, nodeId, quantity, st, visited) ==
  IF nodeId \notin DOMAIN graph.nodes THEN Fail(st, "not_found")
  ELSE IF nodeId \in visited THEN Fail(st, "circular")
  ELSE IF graph.nodes[nodeId].type = "ingredient"
  THEN ConsumeIngredient(st, nodeId, quantity, Get(st.availableStock, nodeId))
  ELSE ConsumeComposite(graph, nodeId, graph.nodes[nodeId].inputs, quantity, st,
                        visited \cup {nodeId}, Get(st.availableStock, nodeId))

\* the ids of requiredInputs: ingredients with a negative delta
ConsumedIngredients(graph, stockChanges) ==
  {c \in DOMAIN stockChanges :
     /\ c \in DOMAIN graph.nodes
     /\ graph.nodes[c].type = "ingredient"
     /\ stockChanges[c] < 0}

\* requiredInputs: the negative ingredient deltas of stockChanges, checked
\* against the caller's map (lines 205-226 and 259-280)
RequiredInputs(graph, st) ==
  [c \in ConsumedIngredients(graph, st.stockChanges) |->
     [quantity |-> 0 - st.stockChanges[c],
      available |-> Get(st.currentStock, c),
      sufficient |-> Get(st.currentStock, c) >= 0 - st.stockChanges[c]]]

\* stockOutcome: before/after of every changed node plus the target
StockOutcome(nodeId, st) ==
  [c \in (DOMAIN st.stockChanges) \cup {nodeId} |->
     [before |-> Get(st.currentStock, c),
      after |-> Get(st.currentStock, c) + Get(st.stockChanges, c)]]

\* the ProductionSimulation returned; threw marks a raised Error, and
\* currentStock is the caller's map as the call leaves it
SimResult(threw, canProduce, nodeId, quantity, requiredInputs, stockOutcome, st) ==
  [threw |-> threw, canProduce |-> canProduce, targetNodeId |-> nodeId,
   quantity |-> quantity, requiredInputs |-> requiredInputs,
   stockOutcome |-> stockOutcome, error |-> st.error,
   currentStock |-> st.currentStock]

\* inputChecks.every((check) => check.sufficient) (line 282)
AllSufficient(inputChecks) == \A c \in DOMAIN inputChecks : inputChecks[c].sufficient

\* lines 253-314; st is the state after the target's quantity was added
SimSuccess(graph, nodeId, quantity, st) ==
  SimResult(FALSE, AllSufficient(RequiredInputs(graph, st)), nodeId, quantity,
            RequiredInputs(graph, st), StockOutcome(nodeId, st), st)

\* lines 203-256; st is the state the root loop over the inputs left
SimAfterInputsDrawDown(graph, nodeId, quantity, st) ==
  IF ~st.success
  THEN SimResult(FALSE, FALSE, nodeId, quantity, RequiredInputs(graph, st), EmptyMap, st)
  ELSE SimSuccess(graph, nodeId, quantity,
                  SetAvailable(AddChange(st, nodeId,
                                         quantity - Min(Get(st.availableStock, nodeId), quantity)),
                               nodeId, Max(Get(st.availableStock, nodeId), quantity)))

SimAfterInputs(graph, nodeId, quantity, st) ==
  IF ~st.success
  THEN SimResult(FALSE, FALSE, nodeId, quantity, RequiredInputs(graph, st), EmptyMap, st)
  ELSE SimSuccess(graph, nodeId, quantity,
                  SetAvailable(AddChange(st, nodeId, quantity), nodeId,
                               Get(st.availableStock, nodeId) + quantity))

simulateProduction(graph, nodeId, quantity, currentStock) ==
  IF nodeId \notin DOMAIN graph.nodes
  THEN SimResult(TRUE, FALSE, nodeId, quantity, EmptyMap, EmptyMap,
                 Fail(NewSim(currentStock), "not_found"))
  ELSE IF graph.nodes[nodeId].type = "ingredient"
  THEN SimResult(FALSE, FALSE, nodeId, quantity, EmptyMap, EmptyMap, NewSim(currentStock))
  ELSE SimAfterInputs(graph, nodeId, quantity,
                      ensureInputs(graph, graph.nodes[nodeId].inputs, 1, quantity,
                                   NewSim(currentStock), {}))

\* lines 335-346
AvailabilityOf(simulation) ==
  [available |-> simulation.canProduce,
   missingInputs |->
     [c \in {x \in DOMAIN simulation.requiredInputs :
               ~simulation.requiredInputs[x].sufficient} |->
        [required |-> simulation.requiredInputs[c].quantity,
         available |-> simulation.requiredInputs[c].available]],
   currentStock |-> simulation.currentStock]

\* checkStockAvailability (lines 320-347)
checkStockAvailability(graph, nodeId, quantity, currentStock) ==
  IF nodeId \notin DOMAIN graph.nodes
  THEN [available |-> FALSE,
        missingInputs |-> [c \in {nodeId} |-> [required |-> quantity, available |-> 0]],
        currentStock |-> currentStock]
  ELSE AvailabilityOf(simulateProduction(graph, nodeId, quantity, currentStock))

\* default lowStockThreshold of getProductionReadiness (line 366)
LowStockThreshold == 10

\* lines 381-385
ReadinessOf(availability, nodeStock) ==
  IF availability.available
  THEN [status |-> IF nodeStock <= LowStockThreshold * Scale THEN "low_stock" ELSE "ready",
        currentStock |-> availability.currentStock]
  ELSE [status |-> "insufficient", currentStock |-> availability.currentStock]

\* getProductionReadiness (lines 362-386)
getProductionReadiness(graph, nodeId, currentStock) ==
  IF nodeId \notin DOMAIN graph.nodes
  THEN [status |-> "insufficient", currentStock |-> currentStock]
  ELSE IF Get(currentStock, nodeId) > LowStockThreshold * Scale
  THEN [status |-> "ready", currentStock |-> currentStock]
  ELSE ReadinessOf(checkStockAvailability(graph, nodeId, 1 * Scale, currentStock),
                   Get(currentStock, nodeId))

\* let result = 1 (line 411)
InitialResult == 1

RECURSIVE BinarySearch(_, _, _, _, _, _)

\* lines 417-422; sim is the simulation of mid
SearchStep(graph, nodeId, low, high, result, mid, sim) ==
  IF sim.canProduce
  THEN BinarySearch(graph, nodeId, sim.currentStock, mid + 1, high, mid)
  ELSE BinarySearch(graph, nodeId, sim.currentStock, low, mid - 1, result)

\* the while loop of getMaxProducibleQuantity (lines 413-423); cur is the
\* caller's map as the calls made so far have left it
BinarySearch(graph, nodeId, cur, low, high, result) ==
  IF low > high THEN [value |-> result, currentStock |-> cur]
  ELSE SearchStep(graph, nodeId, low, high, result, Mid(low, high),
                  simulateProduction(graph, nodeId, Mid(low, high) * Scale, cur))

\* lines 403-425; testSim is the simulation of one unit
SearchFrom(graph, nodeId, maxBound, testSim) ==
  IF ~testSim.canProduce
  THEN [value |-> 0, currentStock |-> testSim.currentStock]
  ELSE BinarySearch(graph, nodeId, testSim.currentStock, 1,
                    Min(maxBound, MaxBoundCap), InitialResult)

\* getMaxProducibleQuantity (lines 392-426)
getMaxProducibleQuantity(graph, nodeId, currentStock, maxBound) ==
  IF nodeId \notin DOMAIN graph.nodes
  THEN [value |-> 0, currentStock |-> currentStock]
  ELSE SearchFrom(graph, nodeId, maxBound,
                  simulateProduction(graph, nodeId, 1 * Scale, currentStock))

\* ------------------------------------------------------- rollback expansion
\* new Set(visited) handed to each input (line 303); done holds the nodes
\* the earlier inputs have visited
BranchVisitedShared(visited, done) == visited \cup done

BranchVisited(visited, done) == visited

RECURSIVE expandToIngredients(_, _, _, _, _)
RECURSIVE expandInputs(_, _, _, _, _, _)

\* the for-loop of expandToIngredients (lines 296-305)
expandInputs(graph, inputs, i, quantity, acc, visited) ==
  IF i > Len(inputs) THEN acc
  ELSE expandInputs(graph, inputs, i + 1, quantity,
                    expandToIngredients(graph, inputs[i].nodeId,
                                        MulPortion(inputs[i].quantity, quantity),
                                        acc, BranchVisited(visited, acc.done)),
                    visited)

\* ingredientRequirements.set(nodeId, current + quantity) (lines 281-282)
Accumulate(acc, nodeId, quantity) ==
  [acc EXCEPT !.req = Put(@, nodeId, Get(@, nodeId) + quantity),
              !.done = @ \cup {nodeId}]

\* acc.req is ingredientRequirements
expandToIngredients(graph, nodeId, quantity, acc, visited) ==
  IF nodeId \notin DOMAIN graph.nodes THEN acc
  ELSE IF nodeId \in visited THEN acc
  ELSE IF graph.nodes[nodeId].type = "ingredient"
  THEN Accumulate(acc, nodeId, quantity)
  ELSE IF Len(graph.nodes[nodeId].inputs) = 0
  THEN [acc EXCEPT !.done = @ \cup {nodeId}]
  ELSE expandInputs(graph, graph.nodes[nodeId].inputs, 1, quantity,
                    [acc EXCEPT !.done = @ \cup {nodeId}], visited \cup {nodeId})

\* lines 392-393
IngredientRequirements(graph, targetNodeId, quantity) ==
  expandToIngredients(graph, targetNodeId, quantity,
                      [req |-> EmptyMap, done |-> {}], {}).req

\* ------------------------------------------------------------ persistence
\* InventoryStockRepository.updateStockBatch: validate every update against
\* the current stock, then write them all in one atomic commit
updateStockBatchPartial(current, updates, commitOk) ==
  IF \E c \in DOMAIN updates : Get(current, c) + updates[c] < 0
  THEN [success |-> FALSE, error |-> "insufficient_stock", stock |-> current]
  ELSE [success |-> commitOk, error |-> IF commitOk THEN "none" ELSE "commit_failed",
        stock |-> [c \in (DOMAIN current) \cup (DOMAIN updates) |->
                     IF c \in DOMAIN updates
                     THEN Get(current, c) + updates[c] ELSE current[c]]]

updateStockBatch(current, updates, commitOk) ==
  IF \E c \in DOMAIN updates : Get(current, c) + updates[c] < 0
  THEN [success |-> FALSE, error |-> "insufficient_stock", stock |-> current]
  ELSE IF ~commitOk
  THEN [success |-> FALSE, error |-> "commit_failed", stock |-> current]
  ELSE [success |-> TRUE, error |-> "none",
        stock |-> [c \in (DOMAIN current) \cup (DOMAIN updates) |->
                     IF c \in DOMAIN updates
                     THEN Get(current, c) + updates[c] ELSE current[c]]]

\* setTestStock of the tests and of the validation script, per graph of Graphs
InitialStocks ==
  <<{[c \in {"ing_a"} |-> 8 * Scale]},
    {[c \in {"ing_a"} |-> 20 * Scale]},
    {[c \in {"acucar", "farinha", "ovo"} |->
        IF c = "ovo" THEN 18 * Scale ELSE 3 * Scale]},
    {[c \in {"ing_bolo"} |-> 6 * Scale]},
    {[c \in {"a"} |-> 10 * Scale],
     [c \in {"a", "p1"} |-> IF c = "a" THEN 10 * Scale ELSE 1 * Scale]},
    {[c \in {"a"} |-> 10 * Scale]},
    {[c \in {"a"} |-> 5 * Scale]},
    {[c \in {"a"} |-> 10 * Scale]}>>

\* ------------------------------------------------------------------- state
VARIABLES
  graph,        \* the node store, as buildTestGraph / the routes load it
  stock,        \* inventory_stock of the active inventory: nodeId -> quantity
  orders,       \* production_order records: orderId -> order
  nextOrderId,  \* order ids are fresh; the model numbers them
  last,         \* the last call and what it returned
  rolledBack,   \* ids whose rollback has succeeded
  executed,     \* the orders created so far, in execution order
  postExec,     \* stock right after the latest successful execution
  mixed,        \* an execution succeeded after a rollback had succeeded
  stock0,       \* the initial stock
  call,         \* SpecPure: the last call of a pure function and its result
  globalCache,  \* the process-wide CalculationCache: cache and dependencyMap
  nodeAttrs,    \* the cost, time and weight fields of the nodes of graph
  changed,      \* nodes whose definition changed since their last invalidate
  dag,          \* SpecDag: the Graph the dag.ts operations work on
  dagOps,       \* SpecDag: the number of dag.ts calls made so far
  procs,        \* SpecConc: per client, the call in progress and what it has read
  calls         \* SpecConc: the number of calls started so far

calcVars == <<globalCache, nodeAttrs, changed, dag, dagOps, procs, calls>>

vars == <<graph, stock, orders, nextOrderId, last, rolledBack, executed,
          postExec, mixed, stock0, call, calcVars>>

NoOrder == [id |-> 0, targetNodeId |-> "none", quantity |-> 0, stockDeltas |-> EmptyMap]

NoCall ==
  [op |-> "none", orderId |-> 0, order |-> NoOrder, success |-> FALSE,
   error |-> "none", before |-> EmptyMap, hadOrder |-> FALSE,
   wasRolledBack |-> FALSE, immediate |-> FALSE, preExec |-> EmptyMap]

NoPure ==
  [op |-> "none", nodeId |-> "none", quantity |-> 0, maxBound |-> 0,
   canProduce |-> FALSE, value |-> 0, status |-> "none",
   threw |-> FALSE, error |-> "none", requiredInputs |-> EmptyMap,
   stockOutcome |-> EmptyMap, missingInputs |-> EmptyMap,
   availableStock |-> EmptyMap, stockChanges |-> EmptyMap,
   needed |-> 0, totalCost |-> 0, totalTime |-> 0,
   from |-> 0, to |-> 0, success |-> FALSE, stack |-> << >>]

\* createEmptyGraph (dag.ts)
createEmptyGraph == [nodes |-> << >>, edges |-> EmptyMap, reverseEdges |-> EmptyMap]

\* new CalculationCache()
NewCache == [cache |-> EmptyMap, dependencyMap |-> EmptyMap]

\* the clients that send requests
Clients == {"c1", "c2"}

\* a client with no call in progress; result is what its last call returned
IdleClient ==
  [pc |-> "idle", op |-> "none", nodeId |-> "none", quantity |-> 0,
   order |-> NoOrder, updates |-> EmptyMap, read |-> EmptyMap,
   writes |-> EmptyMap, result |-> "none"]

NoClients ==
  /\ procs = [c \in Clients |-> IdleClient]
  /\ calls = 0

\* the cost cache and the edge graph are idle in the inventory scenarios
CalcIdle ==
  /\ globalCache = NewCache
  /\ nodeAttrs = EmptyMap
  /\ changed = {}
  /\ dag = createEmptyGraph
  /\ dagOps = 0
  /\ NoClients

\* the graphs the inventory scenarios of the tests run on
InventoryGraphs == {1, 2, 3, 4, 7}

Init ==
  /\ \E gi \in InventoryGraphs :
       /\ graph = Graphs[gi]
       /\ stock \in InitialStocks[gi]
  /\ stock0 = stock
  /\ orders = EmptyMap
  /\ nextOrderId = 1
  /\ last = NoCall
  /\ rolledBack = {}
  /\ executed = << >>
  /\ postExec = stock
  /\ mixed = FALSE
  /\ call = NoPure
  /\ CalcIdle

\* ------------------------------------------------------------- execution
\* updates of the batch: after - before of every stockOutcome entry
StockUpdates(stockOutcome) ==
  [c \in DOMAIN stockOutcome |-> stockOutcome[c].after - stockOutcome[c].before]

\* the order saved once the batch is committed; stock is the store as
\* updateStockBatch left it
SaveOrder(nodeId, q, updates, batchResult) ==
  IF ~batchResult.success
  THEN [success |-> FALSE, error |-> batchResult.error,
        stock |-> batchResult.stock, order |-> NoOrder]
  ELSE [success |-> TRUE, error |-> "none", stock |-> batchResult.stock,
        order |-> [id |-> nextOrderId, targetNodeId |-> nodeId,
                   quantity |-> q * Scale, stockDeltas |-> updates]]

\* the handler after the simulation: refuse, or write the batch and the order
CommitSimulation(nodeId, q, commitOk, simulation) ==
  IF ~simulation.canProduce
  THEN [success |-> FALSE, error |-> "cannot_produce", stock |-> stock,
        order |-> NoOrder]
  ELSE SaveOrder(nodeId, q, StockUpdates(simulation.stockOutcome),
                 updateStockBatch(stock, StockUpdates(simulation.stockOutcome), commitOk))

\* POST /api/production/execute in persisted mode (executeProduction of the
\* tests): simulate, write the stock outcome in one batch, save the order
ExecuteResult(nodeId, q, commitOk) ==
  IF q <= 0 THEN [success |-> FALSE, error |-> "bad_quantity", stock |-> stock,
                  order |-> NoOrder]
  ELSE IF nodeId \notin DOMAIN graph.nodes
  THEN [success |-> FALSE, error |-> "not_found", stock |-> stock, order |-> NoOrder]
  ELSE CommitSimulation(nodeId, q, commitOk,
                        simulateProduction(graph, nodeId, q * Scale, stock))

\* the stores and the history once the handler has returned r
ExecuteEffect(r) ==
  /\ stock' = r.stock
  /\ orders' = IF r.success THEN Put(orders, r.order.id, r.order) ELSE orders
  /\ nextOrderId' = IF r.success THEN nextOrderId + 1 ELSE nextOrderId
  /\ executed' = IF r.success THEN Append(executed, r.order) ELSE executed
  /\ postExec' = IF r.success THEN r.stock ELSE postExec
  /\ mixed' = (mixed \/ (r.success /\ rolledBack # {}))
  /\ last' = [op |-> "execute", orderId |-> r.order.id, order |-> r.order,
              success |-> r.success, error |-> r.error, before |-> stock,
              hadOrder |-> FALSE, wasRolledBack |-> FALSE,
              immediate |-> FALSE, preExec |-> EmptyMap]

Execute(nodeId, q, commitOk) ==
  /\ nextOrderId <= MaxOrders
  /\ ExecuteEffect(ExecuteResult(nodeId, q, commitOk))
  /\ UNCHANGED <<graph, rolledBack, stock0, call, calcVars>>

\* --------------------------------------------------------------- rollback
\* availableFinalStock < order.quantity (line 383)
InsufficientToRollbackNever(availableFinalStock, quantity) == FALSE

InsufficientToRollback(availableFinalStock, quantity) ==
  availableFinalStock < quantity

\* Math.max(0, currentFinalQuantity - order.quantity) (line 412)
FinalProductNewQuantityReset(currentFinalQuantity, quantity) == 0

FinalProductNewQuantity(currentFinalQuantity, quantity) ==
  Max(0, currentFinalQuantity - quantity)

\* Math.max(0, currentIngredientQuantity + restoreQuantity) (line 428)
IngredientNewQuantityOverwrite(currentIngredientQuantity, restoreQuantity) ==
  Max(0, restoreQuantity)

IngredientNewQuantityDebit(currentIngredientQuantity, restoreQuantity) ==
  currentIngredientQuantity - restoreQuantity

IngredientNewQuantity(currentIngredientQuantity, restoreQuantity) ==
  Max(0, currentIngredientQuantity + restoreQuantity)

\* the atomic.set calls of lines 413-440: the target first, then every key
\* of ingredientRequirements
RollbackWritesReplay(current, order, ingredientRequirements) ==
  [c \in (DOMAIN current) \cup {d \in DOMAIN order.stockDeltas : order.stockDeltas[d] # 0} |->
     IF c \in DOMAIN order.stockDeltas /\ order.stockDeltas[c] # 0
     THEN IF c = order.targetNodeId \/ c \in DOMAIN ingredientRequirements
          THEN Max(0, Get(current, c) - order.stockDeltas[c])
          ELSE Get(current, c) - order.stockDeltas[c]
     ELSE current[c]]

\* the ingredient writes (lines 420-440) on top of the target write
IngredientWrites(current, afterFinal, ingredientRequirements) ==
  [c \in (DOMAIN afterFinal) \cup (DOMAIN ingredientRequirements) |->
     IF c \in DOMAIN ingredientRequirements
     THEN IngredientNewQuantity(Get(current, c), ingredientRequirements[c])
     ELSE afterFinal[c]]

RollbackWrites(current, order, ingredientRequirements) ==
  IngredientWrites(current,
                   Put(current, order.targetNodeId,
                       FinalProductNewQuantity(Get(current, order.targetNodeId),
                                               order.quantity)),
                   ingredientRequirements)

\* repos.productionOrder.delete (line 459)
DeleteOrderKeep(os, orderId) == os

DeleteOrder(os, orderId) == [o \in (DOMAIN os) \ {orderId} |-> os[o]]

\* lines 381-465, once the order has been found
RollbackOrder(g, current, os, order, commitOk) ==
  IF InsufficientToRollback(Get(current, order.targetNodeId), order.quantity)
  THEN [success |-> FALSE, error |-> "insufficient_stock_to_rollback",
        stock |-> current, orders |-> os]
  ELSE IF ~commitOk
  THEN [success |-> FALSE, error |-> "commit_failed", stock |-> current,
        orders |-> os]
  ELSE [success |-> TRUE, error |-> "none",
        stock |-> RollbackWrites(current, order,
                    IngredientRequirements(g, order.targetNodeId, order.quantity)),
        orders |-> DeleteOrder(os, order.id)]

\* rollbackProductionOrder, on the given graph, stock and order store
rollbackProductionOrder(g, current, os, orderId, commitOk) ==
  IF orderId \notin DOMAIN os
  THEN [success |-> FALSE, error |-> "order_not_found", stock |-> current, orders |-> os]
  ELSE RollbackOrder(g, current, os, os[orderId], commitOk)

\* the call right before this one was the execution that created the order
JustExecuted(orderId) ==
  last.op = "execute" /\ last.success /\ last.orderId = orderId

\* the stores and the history once rollbackProductionOrder has returned r
RollbackEffect(orderId, r) ==
  /\ stock' = r.stock
  /\ orders' = r.orders
  /\ rolledBack' = IF r.success THEN rolledBack \cup {orderId} ELSE rolledBack
  /\ last' = [op |-> "rollback", orderId |-> orderId,
              order |-> IF orderId \in DOMAIN orders THEN orders[orderId] ELSE NoOrder,
              success |-> r.success, error |-> r.error, before |-> stock,
              hadOrder |-> orderId \in DOMAIN orders,
              wasRolledBack |-> orderId \in rolledBack,
              immediate |-> JustExecuted(orderId),
              preExec |-> IF JustExecuted(orderId) THEN last.before ELSE EmptyMap]

Rollback(orderId, commitOk) ==
  /\ RollbackEffect(orderId,
                    rollbackProductionOrder(graph, stock, orders, orderId, commitOk))
  /\ UNCHANGED <<graph, nextOrderId, executed, postExec, mixed, stock0, call,
                 calcVars>>

Next ==
  \/ \E nodeId \in NodeIds(graph) \cup {"missing"}, q \in 0 .. MaxQty, commitOk \in BOOLEAN :
       Execute(nodeId, q, commitOk)
  \/ \E orderId \in 1 .. MaxOrders, commitOk \in BOOLEAN :
       Rollback(orderId, commitOk)

Spec == Init /\ [][Next]_vars

\* ---------------------------------------------------- concurrent requests
\* Two clients send execute and rollback requests.  A handler runs to its
\* next await of the store, where the other client's handler may run; each
\* action below is the code between two awaits that read or write stock or
\* orders.  The reads of previousStocks that feed only the change events
\* (execute.ts lines 146-150, the ingredient entries of part_011 lines
\* 395-400) and the event emission itself touch no store and are left out.
RECURSIVE SeqOfSet(_)

\* the keys of a Map in a fixed order
SeqOfSet(S) ==
  IF S = {} THEN << >>
  ELSE <<CHOOSE x \in S : TRUE>> \o SeqOfSet(S \ {CHOOSE x \in S : TRUE})

\* the order of the updates of an execution: stockOutcome lists the target
\* last (stock.ts lines 253-255 insert it after the inputs)
BatchOrder(nodeId, updates) ==
  SeqOfSet((DOMAIN updates) \ {nodeId}) \o <<nodeId>>

\* the handler has returned; the client keeps what it was told
Finished(op, result) == [IdleClient EXCEPT !.op = op, !.result = result]

\* the step of client c: its own state, the stock store and the order store
Moves(c, local, store, os) ==
  /\ procs' = [procs EXCEPT ![c] = local]
  /\ stock' = store
  /\ orders' = os
  /\ UNCHANGED <<graph, last, postExec, mixed, stock0, call, globalCache,
                 nodeAttrs, changed, dag, dagOps>>

\* atomic.set(key, {quantity: newQuantity}) for every key, then commit: the
\* quantities computed from the call's own reads replace what the store
\* holds; there is no atomic.check of what was read
CommitWritesDelta(current, read, writes) ==
  [n \in (DOMAIN current) \cup (DOMAIN writes) |->
     IF n \in DOMAIN writes THEN Get(current, n) + writes[n] - read[n] ELSE current[n]]

CommitWrites(current, read, writes) ==
  [n \in (DOMAIN current) \cup (DOMAIN writes) |->
     IF n \in DOMAIN writes THEN writes[n] ELSE current[n]]

\* execute.ts lines 96-143: the simulation of the snapshot just read
ExecStarted(nodeId, q, simulation) ==
  IF ~simulation.canProduce THEN Finished("execute", "cannot_produce")
  ELSE [IdleClient EXCEPT !.pc = "batchRead", !.op = "execute", !.nodeId = nodeId,
                          !.quantity = q * Scale,
                          !.updates = StockUpdates(simulation.stockOutcome)]

\* POST /api/production/execute up to the call of updateStockBatch: the
\* stock snapshot is read by getAll (line 89) and simulated
ExecStart(c, nodeId, q) ==
  /\ procs[c].pc = "idle"
  /\ calls < MaxCalls
  /\ calls' = calls + 1
  /\ Moves(c, IF q <= 0 THEN Finished("execute", "bad_quantity")
              ELSE IF nodeId \notin DOMAIN graph.nodes
              THEN Finished("execute", "not_found")
              ELSE ExecStarted(nodeId, q,
                               simulateProduction(graph, nodeId, q * Scale, stock)),
           stock, orders)
  /\ UNCHANGED <<nextOrderId, executed, rolledBack>>

\* updateStockBatch lines 506-536 once read holds one more current quantity:
\* after the last one the updates are validated and newQuantity = current +
\* update.quantity is computed for the transaction
AfterBatchRead(local, read) ==
  IF DOMAIN read # DOMAIN local.updates THEN [local EXCEPT !.read = read]
  ELSE IF \E n \in DOMAIN read : read[n] + local.updates[n] < 0
  THEN Finished("execute", "insufficient_stock")
  ELSE [local EXCEPT !.pc = "commit", !.read = read,
                     !.writes = [n \in DOMAIN read |-> read[n] + local.updates[n]]]

\* const stock = await this.get(inventoryId, update.nodeId) (line 507)
BatchReadOf(c, nodeId) ==
  Moves(c, AfterBatchRead(procs[c], Put(procs[c].read, nodeId, Get(stock, nodeId))),
        stock, orders)

ExecBatchRead(c) ==
  /\ procs[c].pc = "batchRead"
  /\ BatchReadOf(c, BatchOrder(procs[c].nodeId, procs[c].updates)
                      [Cardinality(DOMAIN procs[c].read) + 1])
  /\ UNCHANGED <<nextOrderId, executed, rolledBack, calls>>

\* await atomic.commit() of updateStockBatch (lines 541-548)
ExecCommit(c, commitOk) ==
  /\ procs[c].pc = "commit" /\ procs[c].op = "execute"
  /\ IF commitOk
     THEN Moves(c, [procs[c] EXCEPT !.pc = "saveOrder"],
                CommitWrites(stock, procs[c].read, procs[c].writes), orders)
     ELSE Moves(c, Finished("execute", "commit_failed"), stock, orders)
  /\ UNCHANGED <<nextOrderId, executed, rolledBack, calls>>

\* the record of repos.productionOrder.save (execute.ts lines 168-187)
OrderOf(local, id) ==
  [id |-> id, targetNodeId |-> local.nodeId, quantity |-> local.quantity,
   stockDeltas |-> local.updates]

ExecSaveOrder(c) ==
  /\ procs[c].pc = "saveOrder"
  /\ Moves(c, Finished("execute", "ok"), stock,
           Put(orders, nextOrderId, OrderOf(procs[c], nextOrderId)))
  /\ nextOrderId' = nextOrderId + 1
  /\ executed' = Append(executed, OrderOf(procs[c], nextOrderId))
  /\ UNCHANGED <<rolledBack, calls>>

\* rollbackProductionOrder lines 337-344: the order record is read
RbStart(c, orderId) ==
  /\ procs[c].pc = "idle"
  /\ calls < MaxCalls
  /\ calls' = calls + 1
  /\ Moves(c, IF orderId \notin DOMAIN orders
              THEN Finished("rollback", "order_not_found")
              ELSE [IdleClient EXCEPT !.pc = "readFinal", !.op = "rollback",
                                      !.nodeId = orders[orderId].targetNodeId,
                                      !.quantity = orders[orderId].quantity,
                                      !.order = orders[orderId]],
           stock, orders)
  /\ UNCHANGED <<nextOrderId, executed, rolledBack>>

\* lines 380-393: the stock of the target is read and checked, and the order
\* is expanded to ingredient requirements (kept in updates)
RbReadFinal(c) ==
  /\ procs[c].pc = "readFinal"
  /\ Moves(c, IF InsufficientToRollback(Get(stock, procs[c].nodeId), procs[c].quantity)
              THEN Finished("rollback", "insufficient_stock_to_rollback")
              ELSE [procs[c] EXCEPT !.pc = "readPrev",
                                    !.updates = IngredientRequirements(
                                                  graph, procs[c].nodeId, procs[c].quantity)],
           stock, orders)
  /\ UNCHANGED <<nextOrderId, executed, rolledBack, calls>>

\* lines 395-421: previousStocks reads the target again, and the target's new
\* quantity is computed from that read
RbReadPrev(c) ==
  /\ procs[c].pc = "readPrev"
  /\ Moves(c, [procs[c] EXCEPT
                 !.pc = IF DOMAIN procs[c].updates = {} THEN "commit" ELSE "readIngredient",
                 !.read = Put(EmptyMap, procs[c].nodeId, Get(stock, procs[c].nodeId)),
                 !.writes = Put(EmptyMap, procs[c].nodeId,
                                FinalProductNewQuantity(Get(stock, procs[c].nodeId),
                                                        procs[c].quantity))],
           stock, orders)
  /\ UNCHANGED <<nextOrderId, executed, rolledBack, calls>>

\* lines 425-439 for one ingredient: its current quantity is read and its new
\* quantity computed
IngredientReadOf(c, ingredientId, last_one) ==
  Moves(c, [procs[c] EXCEPT
              !.pc = IF last_one THEN "commit" ELSE "readIngredient",
              !.read = Put(@, ingredientId, Get(stock, ingredientId)),
              !.writes = Put(@, ingredientId,
                             IngredientNewQuantity(Get(stock, ingredientId),
                                                   procs[c].updates[ingredientId]))],
        stock, orders)

RbReadIngredient(c) ==
  /\ procs[c].pc = "readIngredient"
  /\ IngredientReadOf(c, SeqOfSet(DOMAIN procs[c].updates)[Cardinality(DOMAIN procs[c].read)],
                      Cardinality(DOMAIN procs[c].read) = Cardinality(DOMAIN procs[c].updates))
  /\ UNCHANGED <<nextOrderId, executed, rolledBack, calls>>

\* await atomic.commit() of the rollback (lines 442-448)
RbCommit(c, commitOk) ==
  /\ procs[c].pc = "commit" /\ procs[c].op = "rollback"
  /\ IF commitOk
     THEN /\ Moves(c, [procs[c] EXCEPT !.pc = "delete"],
                   CommitWrites(stock, procs[c].read, procs[c].writes), orders)
          /\ rolledBack' = rolledBack \cup {procs[c].order.id}
     ELSE /\ Moves(c, Finished("rollback", "commit_failed"), stock, orders)
          /\ rolledBack' = rolledBack
  /\ UNCHANGED <<nextOrderId, executed, calls>>

\* await repos.productionOrder.delete (line 459), after the commit
RbDelete(c) ==
  /\ procs[c].pc = "delete"
  /\ Moves(c, Finished("rollback", "ok"), stock, DeleteOrder(orders, procs[c].order.id))
  /\ UNCHANGED <<nextOrderId, executed, rolledBack, calls>>

InitConc ==
  /\ graph = GraphDirect
  /\ stock \in InitialStocks[4]
  /\ stock0 = stock
  /\ orders = EmptyMap
  /\ nextOrderId = 1
  /\ last = NoCall
  /\ rolledBack = {}
  /\ executed = << >>
  /\ postExec = stock
  /\ mixed = FALSE
  /\ call = NoPure
  /\ CalcIdle

NextConc ==
  \E c \in Clients :
    \/ \E nodeId \in NodeIds(graph) \cup {"missing"}, q \in 0 .. MaxQty :
         ExecStart(c, nodeId, q)
    \/ ExecBatchRead(c)
    \/ \E commitOk \in BOOLEAN : ExecCommit(c, commitOk)
    \/ ExecSaveOrder(c)
    \/ \E orderId \in 1 .. MaxOrders : RbStart(c, orderId)
    \/ RbReadFinal(c)
    \/ RbReadPrev(c)
    \/ RbReadIngredient(c)
    \/ \E commitOk \in BOOLEAN : RbCommit(c, commitOk)
    \/ RbDelete(c)

SpecConc == InitConc /\ [][NextConc]_vars

\* ------------------------------------------------------------ edge graph
\* dag.ts works on Graph.nodes (a Map, kept here as its keys in insertion
\* order), Graph.edges (to -> incoming edges) and Graph.reverseEdges
\* (from -> outgoing edges)
DagNodeIds == 1 .. MaxDagNodes

GraphEdge(from, to) == [from |-> from, to |-> to, quantity |-> 1]

\* map.get(k) || []
EdgesOf(m, k) == IF k \in DOMAIN m THEN m[k] ELSE << >>

\* graph.nodes.has(nodeId)
HasNode(g, nodeId) == \E i \in DOMAIN g.nodes : g.nodes[i] = nodeId

\* map.delete(k)
Without(m, k) == [x \in (DOMAIN m) \ {k} |-> m[x]]

\* visited.get(nodeId), WHITE when it has just been set (lines 26-30)
ColorOf(visited, nodeId) ==
  IF nodeId \in DOMAIN visited THEN visited[nodeId] ELSE "WHITE"

RECURSIVE hasCycle(_, _, _)
RECURSIVE hasCycleEdges(_, _, _, _, _)

\* lines 48-50: a cycle below an edge ends the search
AfterEdge(g, startNodeId, outgoingEdges, i, r) ==
  IF r.cycle THEN r
  ELSE hasCycleEdges(g, startNodeId, outgoingEdges, i + 1, r.visited)

\* the loop over the outgoing edges and the BLACK mark (lines 46-55)
hasCycleEdges(g, startNodeId, outgoingEdges, i, visited) ==
  IF i > Len(outgoingEdges)
  THEN [cycle |-> FALSE, visited |-> Put(visited, startNodeId, "BLACK")]
  ELSE AfterEdge(g, startNodeId, outgoingEdges, i,
                 hasCycle(g, outgoingEdges[i].to, visited))

\* hasCycle: DFS with colours; visited is the colour map the calls share
hasCycle(g, startNodeId, visited) ==
  IF ColorOf(visited, startNodeId) = "BLACK"
  THEN [cycle |-> FALSE, visited |-> visited]
  ELSE IF ColorOf(visited, startNodeId) = "GRAY"
  THEN [cycle |-> TRUE, visited |-> visited]
  ELSE hasCycleEdges(g, startNodeId, EdgesOf(g.reverseEdges, startNodeId), 1,
                     Put(visited, startNodeId, "GRAY"))

\* the temporary graph of wouldCreateCycle (lines 67-79)
TempGraph(g, from, to) ==
  [nodes |-> g.nodes,
   edges |-> Put(g.edges, to, Append(EdgesOf(g.edges, to), GraphEdge(from, to))),
   reverseEdges |-> Put(g.reverseEdges, from,
                        Append(EdgesOf(g.reverseEdges, from), GraphEdge(from, to)))]

wouldCreateCycleNever(g, from, to) == FALSE

wouldCreateCycle(g, from, to) == hasCycle(TempGraph(g, from, to), from, EmptyMap).cycle

\* addNode: a known id keeps its place in the Map and its edge lists
addNode(g, nodeId) ==
  [nodes |-> IF HasNode(g, nodeId) THEN g.nodes ELSE Append(g.nodes, nodeId),
   edges |-> IF nodeId \in DOMAIN g.edges THEN g.edges ELSE Put(g.edges, nodeId, << >>),
   reverseEdges |-> IF nodeId \in DOMAIN g.reverseEdges THEN g.reverseEdges
                    ELSE Put(g.reverseEdges, nodeId, << >>)]

\* the endpoints on the other side of a list of edges
FromsOf(edgeList) == {edgeList[i].from : i \in DOMAIN edgeList}

TosOf(edgeList) == {edgeList[i].to : i \in DOMAIN edgeList}

\* outgoingEdges.filter((e) => e.to !== nodeId)
FilterTo(edgeList, nodeId) ==
  LET Keep(e) == e.to # nodeId IN SelectSeq(edgeList, Keep)

\* incomingEdges.filter((e) => e.from !== nodeId)
FilterFrom(edgeList, nodeId) ==
  LET Keep(e) == e.from # nodeId IN SelectSeq(edgeList, Keep)

\* removeNode, first loop (lines 224-229)
RemoveIncoming(reverseEdges, incomingEdges, nodeId) ==
  [k \in (DOMAIN reverseEdges) \cup FromsOf(incomingEdges) |->
     IF k \in FromsOf(incomingEdges)
     THEN FilterTo(EdgesOf(reverseEdges, k), nodeId) ELSE reverseEdges[k]]

\* removeNode, second loop (lines 232-237)
RemoveOutgoing(edges, outgoingEdges, nodeId) ==
  [k \in (DOMAIN edges) \cup TosOf(outgoingEdges) |->
     IF k \in TosOf(outgoingEdges)
     THEN FilterFrom(EdgesOf(edges, k), nodeId) ELSE edges[k]]

\* removeNode, the deletes (lines 240-242); reverseEdges is the map the
\* first loop left
DeleteNode(g, nodeId, reverseEdges) ==
  [nodes |-> LET Keep(n) == n # nodeId IN SelectSeq(g.nodes, Keep),
   edges |-> Without(RemoveOutgoing(g.edges, EdgesOf(reverseEdges, nodeId), nodeId),
                     nodeId),
   reverseEdges |-> Without(reverseEdges, nodeId)]

removeNode(g, nodeId) ==
  DeleteNode(g, nodeId,
             RemoveIncoming(g.reverseEdges, EdgesOf(g.edges, nodeId), nodeId))

\* existingEdges.some((e) => e.from === edge.from && e.to === edge.to)
EdgeExistsNever(g, from, to) == FALSE

EdgeExists(g, from, to) ==
  \E i \in DOMAIN EdgesOf(g.edges, to) :
    EdgesOf(g.edges, to)[i].from = from /\ EdgesOf(g.edges, to)[i].to = to

\* addEdge (lines 249-290)
addEdge(g, from, to) ==
  IF ~HasNode(g, from) THEN [success |-> FALSE, graph |-> g]
  ELSE IF ~HasNode(g, to) THEN [success |-> FALSE, graph |-> g]
  ELSE IF from = to THEN [success |-> FALSE, graph |-> g]
  ELSE IF EdgeExists(g, from, to) THEN [success |-> FALSE, graph |-> g]
  ELSE IF wouldCreateCycle(g, from, to) THEN [success |-> FALSE, graph |-> g]
  ELSE [success |-> TRUE, graph |-> TempGraph(g, from, to)]

\* removeEdge (lines 295-314)
removeEdge(g, from, to) ==
  IF Len(FilterFrom(EdgesOf(g.edges, to), from)) = Len(EdgesOf(g.edges, to))
  THEN [success |-> FALSE, graph |-> g]
  ELSE [success |-> TRUE,
        graph |-> [nodes |-> g.nodes,
                   edges |-> Put(g.edges, to, FilterFrom(EdgesOf(g.edges, to), from)),
                   reverseEdges |-> Put(g.reverseEdges, from,
                                        FilterTo(EdgesOf(g.reverseEdges, from), to))]]

\* topologicalSort, the in-degree loop (lines 118-124): the queue starts
\* with the nodes without incoming edges, in the order of graph.nodes
InitialInDegree(g) ==
  [n \in {g.nodes[i] : i \in DOMAIN g.nodes} |-> Len(EdgesOf(g.edges, n))]

InitialQueue(g) ==
  LET NoIncoming(n) == Len(EdgesOf(g.edges, n)) = 0 IN SelectSeq(g.nodes, NoIncoming)

RECURSIVE ReduceInDegrees(_, _, _)

\* one turn of the loop over outgoing edges (lines 134-138); w holds inDegree
\* and queue
ReduceOne(w, to) ==
  [inDegree |-> Put(w.inDegree, to, Get(w.inDegree, to) - 1),
   queue |-> IF Get(w.inDegree, to) - 1 = 0 THEN Append(w.queue, to) ELSE w.queue]

ReduceInDegrees(outgoingEdges, i, w) ==
  IF i > Len(outgoingEdges) THEN w
  ELSE ReduceInDegrees(outgoingEdges, i + 1, ReduceOne(w, outgoingEdges[i].to))

RECURSIVE Kahn(_, _, _)

\* the while loop (lines 127-140); w.queue has lost its head
KahnStep(g, nodeId, w, result) ==
  Kahn(g, ReduceInDegrees(EdgesOf(g.reverseEdges, nodeId), 1, w), Append(result, nodeId))

Kahn(g, w, result) ==
  IF Len(w.queue) = 0 THEN result
  ELSE KahnStep(g, Head(w.queue), [w EXCEPT !.queue = Tail(@)], result)

\* lines 143-147
SortResult(g, result) ==
  [threw |-> Len(result) # Len(g.nodes), result |-> result]

\* topologicalSort (lines 112-148)
topologicalSort(g) ==
  SortResult(g, Kahn(g, [inDegree |-> InitialInDegree(g), queue |-> InitialQueue(g)],
                     << >>))

\* ------------------------------------------------------ cost aggregator
\* The cost, time and weight fields of a node (types.ts) are kept beside the
\* graph in nodeAttrs; cost, time and weight results are fixed-point.
NodeAttrs(packagePrice, packageSize, fabricationTime, productionTime, weight) ==
  [packagePrice |-> packagePrice, packageSize |-> packageSize,
   fabricationTime |-> fabricationTime, productionTime |-> productionTime,
   weight |-> weight]

\* calculateIngredientUnitCost
calculateIngredientUnitCost(ingredient) ==
  IF ingredient.packageSize = 0 THEN 0
  ELSE (ingredient.packagePrice * Scale) \div ingredient.packageSize

\* CalculationCache.addDependency
addDependency(dependencyMap, dependent, dependency) ==
  Put(dependencyMap, dependency,
      (IF dependency \in DOMAIN dependencyMap THEN dependencyMap[dependency] ELSE {})
        \cup {dependent})

\* the accumulators of calculateNodeAll (lines 284-286); readNodes records
\* the nodes the result was computed from
ZeroSum(nodeId, dependencyMap) ==
  [threw |-> FALSE, cost |-> 0, time |-> 0, weight |-> 0,
   dependencyMap |-> dependencyMap, readNodes |-> {nodeId}]

\* one turn of the loop over inputs (lines 298-302 and 310-314)
AddInputUnscaled(acc, nodeId, portion, inputResult) ==
  IF inputResult.threw
  THEN [acc EXCEPT !.threw = TRUE, !.dependencyMap = inputResult.dependencyMap]
  ELSE [threw |-> FALSE,
        cost |-> acc.cost + inputResult.cost,
        time |-> acc.time + inputResult.time,
        weight |-> acc.weight + inputResult.weight,
        dependencyMap |-> addDependency(inputResult.dependencyMap, nodeId, portion.nodeId),
        readNodes |-> acc.readNodes \cup inputResult.readNodes]

AddInput(acc, nodeId, portion, inputResult) ==
  IF inputResult.threw
  THEN [acc EXCEPT !.threw = TRUE, !.dependencyMap = inputResult.dependencyMap]
  ELSE [threw |-> FALSE,
        cost |-> acc.cost + MulPortion(portion.quantity, inputResult.cost),
        time |-> acc.time + MulPortion(portion.quantity, inputResult.time),
        weight |-> acc.weight + MulPortion(portion.quantity, inputResult.weight),
        dependencyMap |-> addDependency(inputResult.dependencyMap, nodeId, portion.nodeId),
        readNodes |-> acc.readNodes \cup inputResult.readNodes]

RECURSIVE calculateNodeAll(_, _, _, _)
RECURSIVE SumInputs(_, _, _, _, _, _)

\* the loop over inputs (lines 297-303 and 309-315)
SumInputs(g, attrs, nodeId, inputs, i, acc) ==
  IF i > Len(inputs) \/ acc.threw THEN acc
  ELSE SumInputs(g, attrs, nodeId, inputs, i + 1,
                 AddInput(acc, nodeId, inputs[i],
                          calculateNodeAll(g, attrs, inputs[i].nodeId, acc.dependencyMap)))

\* lines 304-305
FinishRecipe(acc, recipe) ==
  IF acc.threw THEN acc
  ELSE [acc EXCEPT !.time = @ + recipe.fabricationTime * Scale,
                   !.weight = recipe.weight * Scale]

\* line 316
FinishProduct(acc, product) ==
  IF acc.threw THEN acc
  ELSE [acc EXCEPT !.time = @ + product.productionTime * Scale]

\* calculateNodeAll never reads the cache: it recomputes the whole subtree
calculateNodeAll(g, attrs, nodeId, dependencyMap) ==
  IF nodeId \notin DOMAIN g.nodes
  THEN [ZeroSum(nodeId, dependencyMap) EXCEPT !.threw = TRUE]
  ELSE IF g.nodes[nodeId].type = "ingredient"
  THEN [ZeroSum(nodeId, dependencyMap) EXCEPT
          !.cost = calculateIngredientUnitCost(attrs[nodeId])]
  ELSE IF g.nodes[nodeId].type = "recipe"
  THEN FinishRecipe(SumInputs(g, attrs, nodeId, g.nodes[nodeId].inputs, 1,
                              ZeroSum(nodeId, dependencyMap)),
                    attrs[nodeId])
  ELSE FinishProduct(SumInputs(g, attrs, nodeId, g.nodes[nodeId].inputs, 1,
                               ZeroSum(nodeId, dependencyMap)),
                     attrs[nodeId])

\* a CacheEntry
CacheEntry(r) ==
  [cost |-> r.cost, time |-> r.time, weight |-> r.weight, readNodes |-> r.readNodes]

\* cache.set of the full result (lines 187-196); a throw leaves only the
\* dependencies recorded so far
StoreResult(c, nodeId, fullResult) ==
  IF fullResult.threw
  THEN [threw |-> TRUE, result |-> CacheEntry(fullResult),
        cache |-> [c EXCEPT !.dependencyMap = fullResult.dependencyMap]]
  ELSE [threw |-> FALSE, result |-> CacheEntry(fullResult),
        cache |-> [cache |-> Put(c.cache, nodeId, CacheEntry(fullResult)),
                   dependencyMap |-> fullResult.dependencyMap]]

\* calculateNodeCost: a cached entry is returned whatever graph is passed
calculateNodeCost(g, attrs, nodeId, c) ==
  IF nodeId \in DOMAIN c.cache
  THEN [threw |-> FALSE, result |-> c.cache[nodeId], cache |-> c]
  ELSE StoreResult(c, nodeId, calculateNodeAll(g, attrs, nodeId, c.dependencyMap))

\* calculateNodeTime: the same code as calculateNodeCost
calculateNodeTime(g, attrs, nodeId, c) ==
  IF nodeId \in DOMAIN c.cache
  THEN [threw |-> FALSE, result |-> c.cache[nodeId], cache |-> c]
  ELSE StoreResult(c, nodeId, calculateNodeAll(g, attrs, nodeId, c.dependencyMap))

\* the dependents recorded for a node (line 63)
DependentsOf(dependencyMap, nodeId) ==
  IF nodeId \in DOMAIN dependencyMap THEN dependencyMap[nodeId] ELSE {}

RECURSIVE invalidate(_, _, _)
RECURSIVE InvalidateDependents(_, _)

\* for (const dependent of dependents) this.invalidate(dependent, visited);
\* w holds the cache object and visited
InvalidateDependentsNone(w, dependents) == w

InvalidateDependents(w, dependents) ==
  IF dependents = {} THEN w
  ELSE InvalidateDependents(
         invalidate(w.c, CHOOSE d \in dependents : TRUE, w.visited),
         dependents \ {CHOOSE d \in dependents : TRUE})

\* CalculationCache.invalidate
invalidate(c, nodeId, visited) ==
  IF nodeId \in visited THEN [c |-> c, visited |-> visited]
  ELSE InvalidateDependents(
         [c |-> [c EXCEPT !.cache = Without(@, nodeId)],
          visited |-> visited \cup {nodeId}],
         DependentsOf(c.dependencyMap, nodeId))

\* invalidateCalculations
invalidateCalculations(c, nodeId) == invalidate(c, nodeId, {}).c

\* ------------------------------------------- calls of the cost aggregator
\* package prices an ingredient is given by an edit
PackagePrices == {2, 6}

\* package sizes of the ingredient
PackageSizes == {0, 1, 2}

\* the nodes of GraphTest as the tests build them
InitialAttrs ==
  [n \in NodeIds(GraphTest) |->
     CASE n = "ing_a" -> NodeAttrs(2, 1, 0, 0, 0)
       [] n = "recipe_r" -> NodeAttrs(0, 0, 5, 0, 1)
       [] n = "product_p1" -> NodeAttrs(0, 0, 0, 3, 0)
       [] n = "product_p2" -> NodeAttrs(0, 0, 0, 4, 0)]

InitCalc ==
  /\ graph = GraphTest
  /\ stock = [c \in {"ing_a"} |-> 4 * Scale]
  /\ stock0 = stock
  /\ orders = EmptyMap
  /\ nextOrderId = 1
  /\ last = NoCall
  /\ rolledBack = {}
  /\ executed = << >>
  /\ postExec = EmptyMap
  /\ mixed = FALSE
  /\ call = NoPure
  /\ globalCache = NewCache
  /\ \E packageSize \in PackageSizes :
       nodeAttrs = [InitialAttrs EXCEPT !["ing_a"].packageSize = packageSize]
  /\ changed = {}
  /\ dag = createEmptyGraph
  /\ dagOps = 0
  /\ NoClients

\* what a call of the aggregator leaves behind
CalcReturned(c, cacheAfter) ==
  /\ call' = c
  /\ globalCache' = cacheAfter
  /\ UNCHANGED <<graph, stock, orders, nextOrderId, last, rolledBack, executed,
                 postExec, mixed, stock0, nodeAttrs, changed, dag, dagOps, procs, calls>>

\* an edit of an ingredient's packagePrice (PUT of the ingredient); the
\* routes do not invalidate the cache
ChangePrice(nodeId, packagePrice) ==
  /\ nodeId \in IngredientIds(graph)
  /\ nodeAttrs[nodeId].packagePrice # packagePrice
  /\ nodeAttrs' = [nodeAttrs EXCEPT ![nodeId].packagePrice = packagePrice]
  /\ changed' = changed \cup {nodeId}
  /\ call' = [NoPure EXCEPT !.op = "change", !.nodeId = nodeId]
  /\ UNCHANGED <<graph, stock, orders, nextOrderId, last, rolledBack, executed,
                 postExec, mixed, stock0, globalCache, dag, dagOps, procs, calls>>

\* an edit of the inputs of product_p2: 1 product_p1 <-> 0.5 recipe_r
ChangeInputs ==
  /\ graph' = IF graph = GraphTest THEN GraphSurplus ELSE GraphTest
  /\ changed' = changed \cup {"product_p2"}
  /\ call' = [NoPure EXCEPT !.op = "change", !.nodeId = "product_p2"]
  /\ UNCHANGED <<stock, orders, nextOrderId, last, rolledBack, executed,
                 postExec, mixed, stock0, globalCache, nodeAttrs, dag, dagOps, procs, calls>>

Invalidate(nodeId) ==
  /\ globalCache' = invalidateCalculations(globalCache, nodeId)
  /\ changed' = changed \ {nodeId}
  /\ call' = [NoPure EXCEPT !.op = "invalidate", !.nodeId = nodeId]
  /\ UNCHANGED <<graph, stock, orders, nextOrderId, last, rolledBack, executed,
                 postExec, mixed, stock0, nodeAttrs, dag, dagOps, procs, calls>>

CostReturned(nodeId, r) ==
  CalcReturned([NoPure EXCEPT !.op = "calculateNodeCost", !.nodeId = nodeId,
                              !.threw = r.threw, !.totalCost = r.result.cost,
                              !.totalTime = r.result.time, !.value = r.result.weight],
               r.cache)

CalculateCost(nodeId) ==
  CostReturned(nodeId, calculateNodeCost(graph, nodeAttrs, nodeId, globalCache))

\* lines 300-314 are reached unless simulateProduction threw or returned early
ReachedTotals(g, sim) ==
  /\ ~sim.threw
  /\ sim.error = "none"
  /\ g.nodes[sim.targetNodeId].type # "ingredient"

\* totalCost and totalTime (lines 303-304)
TotalsReturned(nodeId, q, sim, costResult, timeResult) ==
  CalcReturned([NoPure EXCEPT !.op = "simulate", !.nodeId = nodeId, !.quantity = q,
                              !.canProduce = sim.canProduce,
                              !.requiredInputs = sim.requiredInputs,
                              !.stockOutcome = sim.stockOutcome,
                              !.totalCost = costResult.result.cost * q,
                              !.totalTime = timeResult.result.time * q],
               timeResult.cache)

\* const timeResult = calculateNodeTime(graph, nodeId) (line 302)
WithTime(nodeId, q, sim, costResult) ==
  TotalsReturned(nodeId, q, sim, costResult,
                 calculateNodeTime(graph, nodeAttrs, nodeId, costResult.cache))

SimulationReturned(nodeId, q, sim) ==
  IF ReachedTotals(graph, sim)
  THEN WithTime(nodeId, q, sim, calculateNodeCost(graph, nodeAttrs, nodeId, globalCache))
  ELSE CalcReturned([NoPure EXCEPT !.op = "simulate", !.nodeId = nodeId,
                                   !.quantity = q, !.canProduce = sim.canProduce,
                                   !.requiredInputs = sim.requiredInputs,
                                   !.stockOutcome = sim.stockOutcome],
                    globalCache)

\* simulateProduction with its totals: it reads and fills the global cache
SimulateWithTotals(nodeId, q) ==
  SimulationReturned(nodeId, q, simulateProduction(graph, nodeId, q * Scale, stock))

NextCalc ==
  \/ \E nodeId \in NodeIds(graph), packagePrice \in PackagePrices :
       ChangePrice(nodeId, packagePrice)
  \/ ChangeInputs
  \/ \E nodeId \in NodeIds(graph) : Invalidate(nodeId)
  \/ \E nodeId \in NodeIds(graph) : CalculateCost(nodeId)
  \/ \E nodeId \in NodeIds(graph), q \in 1 .. MaxQty : SimulateWithTotals(nodeId, q)

SpecCalc == InitCalc /\ [][NextCalc]_vars

\* ------------------------------------------------- calls of the graph model
InitDag ==
  /\ graph = GraphDirect
  /\ stock = EmptyMap
  /\ stock0 = EmptyMap
  /\ orders = EmptyMap
  /\ nextOrderId = 1
  /\ last = NoCall
  /\ rolledBack = {}
  /\ executed = << >>
  /\ postExec = EmptyMap
  /\ mixed = FALSE
  /\ call = NoPure
  /\ CalcIdle

\* what a dag.ts call leaves behind: its result c and the graph
DagReturned(c, g) ==
  /\ dagOps < MaxDagOps
  /\ call' = c
  /\ dag' = g
  /\ dagOps' = dagOps + 1
  /\ UNCHANGED <<graph, stock, orders, nextOrderId, last, rolledBack, executed,
                 postExec, mixed, stock0, globalCache, nodeAttrs, changed,
                 procs, calls>>

AddNode(nodeId) ==
  DagReturned([NoPure EXCEPT !.op = "addNode", !.from = nodeId, !.success = TRUE],
              addNode(dag, nodeId))

RemoveNode(nodeId) ==
  DagReturned([NoPure EXCEPT !.op = "removeNode", !.from = nodeId, !.success = TRUE],
              removeNode(dag, nodeId))

AddEdgeReturned(from, to, r) ==
  DagReturned([NoPure EXCEPT !.op = "addEdge", !.from = from, !.to = to,
                             !.success = r.success],
              r.graph)

AddEdge(from, to) == AddEdgeReturned(from, to, addEdge(dag, from, to))

RemoveEdgeReturned(from, to, r) ==
  DagReturned([NoPure EXCEPT !.op = "removeEdge", !.from = from, !.to = to,
                             !.success = r.success],
              r.graph)

RemoveEdge(from, to) == RemoveEdgeReturned(from, to, removeEdge(dag, from, to))

SortReturned(r) ==
  DagReturned([NoPure EXCEPT !.op = "topologicalSort", !.threw = r.threw,
                             !.success = ~r.threw],
              dag)

TopologicalSort == SortReturned(topologicalSort(dag))

NextDag ==
  \/ \E nodeId \in DagNodeIds : AddNode(nodeId)
  \/ \E nodeId \in DagNodeIds : RemoveNode(nodeId)
  \/ \E from \in DagNodeIds, to \in DagNodeIds : AddEdge(from, to)
  \/ \E from \in DagNodeIds, to \in DagNodeIds : RemoveEdge(from, to)
  \/ TopologicalSort

SpecDag == InitDag /\ [][NextDag]_vars

\* ------------------------------------------------- calls of the pure core
\* stock snapshots handed to the pure functions: every ingredient holds one
\* of IngredientAmounts, every recipe/product is absent from the map or
\* holds one of CompositeAmounts (0.5, 1 and 2.5 units)
IngredientAmounts == <<0, 1 * Scale, 4 * Scale, 10 * Scale>>

CompositeAmounts == <<0, 4, 8, 20>>

PureStocks(g) ==
  {[n \in {x \in NodeIds(g) : g.nodes[x].type = "ingredient" \/ f[x] > 1} |->
      IF g.nodes[n].type = "ingredient"
      THEN IngredientAmounts[f[n]] ELSE CompositeAmounts[f[n]]] :
   f \in [NodeIds(g) -> 1 .. 4]}

InitPure ==
  /\ \E gi \in DOMAIN Graphs :
       /\ graph = Graphs[gi]
       /\ stock \in PureStocks(Graphs[gi]) \cup InitialStocks[gi]
  /\ stock0 = stock
  /\ orders = EmptyMap
  /\ nextOrderId = 1
  /\ last = NoCall
  /\ rolledBack = {}
  /\ executed = << >>
  /\ postExec = EmptyMap
  /\ mixed = FALSE
  /\ call = NoPure
  /\ CalcIdle

\* what a call leaves behind: its result c and the caller's map
Returned(c, currentStock) ==
  /\ call' = c
  /\ stock' = currentStock
  /\ UNCHANGED <<graph, orders, nextOrderId, last, rolledBack, executed,
                 postExec, mixed, stock0, calcVars>>

\* error is what the failing ensureConsumable returned; simulateProduction
\* does not hand it to its caller
SimulateReturned(nodeId, q, sim) ==
  Returned([NoPure EXCEPT !.op = "simulate", !.nodeId = nodeId,
                          !.quantity = q, !.canProduce = sim.canProduce,
                          !.threw = sim.threw, !.error = sim.error,
                          !.requiredInputs = sim.requiredInputs,
                          !.stockOutcome = sim.stockOutcome],
           sim.currentStock)

CallSimulate(nodeId, q) ==
  /\ call.op = "none"
  /\ SimulateReturned(nodeId, q, simulateProduction(graph, nodeId, q * Scale, stock))

CheckReturned(nodeId, q, r) ==
  Returned([NoPure EXCEPT !.op = "check", !.nodeId = nodeId,
                          !.quantity = q, !.canProduce = r.available,
                          !.missingInputs = r.missingInputs],
           r.currentStock)

CallCheck(nodeId, q) ==
  /\ call.op = "none"
  /\ CheckReturned(nodeId, q, checkStockAvailability(graph, nodeId, q * Scale, stock))

ReadinessReturned(nodeId, r) ==
  Returned([NoPure EXCEPT !.op = "readiness", !.nodeId = nodeId,
                          !.status = r.status],
           r.currentStock)

CallReadiness(nodeId) ==
  /\ call.op = "none"
  /\ ReadinessReturned(nodeId, getProductionReadiness(graph, nodeId, stock))

GetMaxReturned(nodeId, maxBound, r) ==
  Returned([NoPure EXCEPT !.op = "getMax", !.nodeId = nodeId,
                          !.maxBound = maxBound, !.value = r.value],
           r.currentStock)

CallGetMax(nodeId, maxBound) ==
  /\ call.op = "none"
  /\ GetMaxReturned(nodeId, maxBound,
                    getMaxProducibleQuantity(graph, nodeId, stock, maxBound))

\* ensureConsumable called on a fresh pair of working maps, as the root loop
\* of simulateProduction calls it for an input
EnsureReturned(nodeId, needed, st) ==
  Returned([NoPure EXCEPT !.op = "ensure", !.nodeId = nodeId,
                          !.needed = needed, !.canProduce = st.success,
                          !.error = st.error,
                          !.availableStock = st.availableStock,
                          !.stockChanges = st.stockChanges],
           st.currentStock)

\* needed is a multiple of 1/PDen, as portion.quantity * produceUnits is
CallEnsureConsumable(nodeId, halves) ==
  /\ call.op = "none"
  /\ EnsureReturned(nodeId, MulPortion(halves, Scale),
                    ensureConsumable(graph, nodeId, MulPortion(halves, Scale),
                                     NewSim(stock), {}))

\* maxBound as callers pass it: a small explicit bound or the default
MaxBounds == (0 .. MaxBoundArg) \cup {MaxBoundCap}

NextPure ==
  \/ \E nodeId \in NodeIds(graph) \cup {"missing"}, q \in 1 .. MaxPureQty :
       CallSimulate(nodeId, q)
  \/ \E nodeId \in NodeIds(graph), halves \in 1 .. MaxNeedHalves :
       CallEnsureConsumable(nodeId, halves)
  \/ \E nodeId \in NodeIds(graph) \cup {"missing"}, q \in 1 .. MaxPureQty :
       CallCheck(nodeId, q)
  \/ \E nodeId \in NodeIds(graph) \cup {"missing"} : CallReadiness(nodeId)
  \/ \E nodeId \in NodeIds(graph) \cup {"missing"}, maxBound \in MaxBounds :
       CallGetMax(nodeId, maxBound)

SpecPure == InitPure /\ [][NextPure]_vars

\* ------------------------------------- the recursion of the cost aggregator
\* simulateProduction on graphs whose inputs may form a cycle, with the
\* recursion of calculateNodeAll (reached through calculateNodeCost on a
\* cache miss, stock.ts line 301) taken one call at a time: call.stack holds
\* the calls in progress, each with the index of the input it is at.
TermGraphs == <<GraphCycle, GraphSelf, GraphBuried, GraphTest>>

\* the cost fields of the nodes, the same for every node
TermAttrs(g) == [n \in NodeIds(g) |-> NodeAttrs(2, 1, 5, 3, 1)]

InitTerm ==
  /\ \E gi \in DOMAIN TermGraphs :
       /\ graph = TermGraphs[gi]
       /\ stock \in PureStocks(TermGraphs[gi])
       /\ nodeAttrs = TermAttrs(TermGraphs[gi])
  /\ stock0 = stock
  /\ orders = EmptyMap
  /\ nextOrderId = 1
  /\ last = NoCall
  /\ rolledBack = {}
  /\ executed = << >>
  /\ postExec = EmptyMap
  /\ mixed = FALSE
  /\ call = NoPure
  /\ globalCache = NewCache
  /\ changed = {}
  /\ dag = createEmptyGraph
  /\ dagOps = 0
  /\ NoClients

\* a call of calculateNodeAll that has just been entered
CostFrame(nodeId) == [nodeId |-> nodeId, i |-> 1]

\* the call in progress and the inputs of its node (none for an ingredient)
TopFrame == call.stack[Len(call.stack)]

TopInputs == graph.nodes[TopFrame.nodeId].inputs

\* simulateProduction up to line 300: the totals are computed only when the
\* call neither threw nor returned early
TotalsStarted(nodeId, q, sim) ==
  IF ReachedTotals(graph, sim)
  THEN Returned([NoPure EXCEPT !.op = "costing", !.nodeId = nodeId, !.quantity = q,
                               !.canProduce = sim.canProduce,
                               !.stack = <<CostFrame(nodeId)>>],
                sim.currentStock)
  ELSE Returned([NoPure EXCEPT !.op = "simulate", !.nodeId = nodeId, !.quantity = q,
                               !.canProduce = sim.canProduce, !.threw = sim.threw,
                               !.error = sim.error],
                sim.currentStock)

TermSimulate(nodeId, q) ==
  /\ call.op = "none"
  /\ TotalsStarted(nodeId, q, simulateProduction(graph, nodeId, q * Scale, stock))

\* calculateNodeAll(graph, portion.nodeId, cache) (lines 299 and 311): the
\* call for the next input is entered; there is no visited set
CostDescend ==
  /\ call.op = "costing"
  /\ TopFrame.i <= Len(TopInputs)
  /\ TopInputs[TopFrame.i].nodeId \in DOMAIN graph.nodes
  /\ Len(call.stack) < MaxCostDepth
  /\ call' = [call EXCEPT !.stack = Append(@, CostFrame(TopInputs[TopFrame.i].nodeId))]
  /\ UNCHANGED <<graph, stock, orders, nextOrderId, last, rolledBack, executed,
                 postExec, mixed, stock0, calcVars>>

\* throw new Error(`Node ${nodeId} not found`) (lines 280-282), which nothing
\* between there and the caller of simulateProduction catches
CostThrow ==
  /\ call.op = "costing"
  /\ TopFrame.i <= Len(TopInputs)
  /\ TopInputs[TopFrame.i].nodeId \notin DOMAIN graph.nodes
  /\ call' = [call EXCEPT !.op = "simulate", !.threw = TRUE, !.error = "not_found",
                          !.stack = << >>]
  /\ globalCache' = calculateNodeCost(graph, nodeAttrs, call.nodeId, globalCache).cache
  /\ UNCHANGED <<graph, stock, orders, nextOrderId, last, rolledBack, executed,
                 postExec, mixed, stock0, nodeAttrs, changed, dag, dagOps, procs, calls>>

\* a call of calculateNodeAll below the first one returns (lines 320-327):
\* its caller goes on with its next input
CostReturn ==
  /\ call.op = "costing"
  /\ TopFrame.i > Len(TopInputs)
  /\ Len(call.stack) > 1
  /\ call' = [call EXCEPT !.stack =
                [SubSeq(@, 1, Len(@) - 1) EXCEPT ![Len(@) - 1].i = @ + 1]]
  /\ UNCHANGED <<graph, stock, orders, nextOrderId, last, rolledBack, executed,
                 postExec, mixed, stock0, calcVars>>

\* the first call returns: the result is cached, calculateNodeTime finds it,
\* and simulateProduction returns its totals (lines 301-314)
CostDone ==
  /\ call.op = "costing"
  /\ TopFrame.i > Len(TopInputs)
  /\ Len(call.stack) = 1
  /\ SimulationReturned(call.nodeId, call.quantity,
                        simulateProduction(graph, call.nodeId, call.quantity * Scale, stock))

NextTerm ==
  \/ \E nodeId \in NodeIds(graph) \cup {"missing"}, q \in 1 .. MaxQty :
       TermSimulate(nodeId, q)
  \/ CostDescend
  \/ CostThrow
  \/ CostReturn
  \/ CostDone

SpecTerm == InitTerm /\ [][NextTerm]_vars

\* ================================================================ claims
Target == last.order.targetNodeId

SuccessfulRollback == last.op = "rollback" /\ last.success

\* C1: executing Q units of a target and then immediately rolling the created
\* order back returns the target and every ingredient to their pre-execution
\* quantities.
C1_RoundTrip ==
  (SuccessfulRollback /\ last.immediate) =>
    \A n \in {Target} \cup IngredientIds(graph) :
      Get(stock, n) = Get(last.preExec, n)

\* C2: a rollback called while the target's stock is below order.quantity
\* fails with "Insufficient stock to rollback", changes no stock and leaves
\* the order record in place.
C2_RollbackPrecondition ==
  (last.op = "rollback" /\ last.hadOrder
     /\ Get(last.before, Target) < last.order.quantity) =>
    /\ ~last.success
    /\ last.error = "insufficient_stock_to_rollback"
    /\ stock = last.before
    /\ last.orderId \in DOMAIN orders
    /\ orders[last.orderId] = last.order

C2_Witness ==
  /\ last.op = "rollback" /\ last.hadOrder
  /\ Get(last.before, Target) < last.order.quantity
  /\ last.error = "insufficient_stock_to_rollback"

\* C3: once a rollback of an order has succeeded the order record is gone,
\* and every later rollback of the same id fails with "Order not found" and
\* changes no stock.
C3_RollbackOnce ==
  /\ \A id \in rolledBack : id \notin DOMAIN orders
  /\ (last.op = "rollback" /\ last.wasRolledBack) =>
       /\ ~last.success
       /\ last.error = "order_not_found"
       /\ stock = last.before

C3_Witness ==
  /\ last.op = "rollback" /\ last.wasRolledBack
  /\ last.error = "order_not_found"
  /\ executed # << >>

\* order.quantity times the product of the Portion quantities along each
\* path from nodeId to the ingredient ing, summed over the paths
RECURSIVE PathRequirement(_, _, _, _)
RECURSIVE PathRequirementSum(_, _, _, _, _)
PathRequirementSum(g, inputs, i, ing, quantity) ==
  IF i > Len(inputs) THEN 0
  ELSE PathRequirement(g, inputs[i].nodeId, ing, MulPortion(inputs[i].quantity, quantity))
       + PathRequirementSum(g, inputs, i + 1, ing, quantity)

PathRequirement(g, nodeId, ing, quantity) ==
  IF nodeId = ing THEN quantity
  ELSE IF g.nodes[nodeId].type = "ingredient" THEN 0
  ELSE PathRequirementSum(g, g.nodes[nodeId].inputs, 1, ing, quantity)

Intermediates == NodeIds(graph) \ ({Target} \cup IngredientIds(graph))

ExecutedTargets == {executed[i].targetNodeId : i \in DOMAIN executed}

AllRolledBack == executed # << >> /\ DOMAIN orders = {}

\* C6: once every executed order has been rolled back, the stock of each
\* intermediate node equals its initial value.
C6_IntermediateRoundTrip ==
  AllRolledBack =>
    \A n \in NodeIds(graph) \ (ExecutedTargets \cup IngredientIds(graph)) :
      Get(stock, n) = Get(stock0, n)

\* the executed orders rolled back one after the other in execution order
RECURSIVE RollbackInOrder(_, _, _, _)
RollbackInOrder(g, current, os, i) ==
  IF i > Len(executed) THEN [success |-> TRUE, stock |-> current]
  ELSE LET r == rollbackProductionOrder(g, current, os, executed[i].id, TRUE)
       IN IF ~r.success THEN [success |-> FALSE, stock |-> r.stock]
          ELSE RollbackInOrder(g, r.stock, r.orders, i + 1)

ExecutedOrders == [id \in {executed[i].id : i \in DOMAIN executed} |-> executed[id]]

\* C7: rolling a set of executed orders back in any order in which every
\* rollback succeeds leaves the targets and the ingredients with the same
\* stock as rolling them back in execution order.
C7_OrderIndependence ==
  (AllRolledBack /\ ~mixed) =>
    LET canon == RollbackInOrder(graph, postExec, ExecutedOrders, 1)
    IN canon.success =>
         \A n \in ExecutedTargets \cup IngredientIds(graph) :
           Get(stock, n) = Get(canon.stock, n)

\* the last rollback was not the one of the latest order, the orders differ
\* in quantity, and execution order would have succeeded too
C7_Witness ==
  /\ AllRolledBack /\ ~mixed
  /\ Len(executed) >= 2
  /\ SuccessfulRollback /\ last.orderId # Len(executed)
  /\ \E i, j \in DOMAIN executed : executed[i].quantity # executed[j].quantity
  /\ RollbackInOrder(graph, postExec, ExecutedOrders, 1).success

\* C8: if simulateProduction reports quantity Q infeasible on a stock
\* snapshot, it reports every larger quantity infeasible on the same snapshot.
C8_Monotonic ==
  (call.op = "simulate" /\ ~call.canProduce) =>
    \A q2 \in (call.quantity + 1) .. (MaxPureQty + 1) :
      ~simulateProduction(graph, call.nodeId, q2 * Scale, stock0).canProduce

\* an infeasible quantity above a feasible one, on the graph whose inputs
\* share an intermediate and an ingredient
C8_Witness ==
  /\ call.op = "simulate" /\ ~call.canProduce
  /\ graph = GraphShared /\ call.nodeId = "t"
  /\ call.quantity > 1 /\ call.quantity <= MaxPureQty
  /\ simulateProduction(graph, "t", 1 * Scale, stock0).canProduce

Feasible(q) == simulateProduction(graph, call.nodeId, q * Scale, stock0).canProduce

\* C9: getMaxProducibleQuantity returns the largest Q in 1 .. min(bound,
\* 1000000) that simulateProduction reports feasible, and 0 when the target
\* is absent or one unit is infeasible.
C9_MaxProducible ==
  call.op = "getMax" =>
    IF call.nodeId \notin DOMAIN graph.nodes \/ ~Feasible(1)
    THEN call.value = 0
    ELSE /\ call.value \in 1 .. Min(call.maxBound, MaxBoundCap)
         /\ Feasible(call.value)
         /\ \A q \in 1 .. Min(Min(call.maxBound, MaxBoundCap), MaxBoundArg + 2) :
              Feasible(q) => q <= call.value

\* C10: the pure functions leave the caller's stock map with the same keys
\* and values, whether they report success or failure.
C10_NoMutation ==
  call.op # "none" => stock = stock0

C10_Witness ==
  /\ call.op = "simulate" /\ call.canProduce
  /\ call.quantity > 1
  /\ \E n \in IngredientIds(graph) : Get(stock0, n) > 0

\* least whole number of units covering the fixed-point quantity s
WholeUnitsCovering(s) ==
  CHOOSE k \in 0 .. (MaxNeedHalves + 1) : k * Scale >= s /\ (k - 1) * Scale < s

\* the part of a needed quantity the existing stock cannot cover
Shortfall(nodeId, needed) == needed - Min(Get(stock0, nodeId), needed)

IsComposite(nodeId) ==
  nodeId \in DOMAIN graph.nodes /\ graph.nodes[nodeId].type # "ingredient"

\* C12: when ensureConsumable succeeds in producing a recipe/product to cover
\* a shortfall s > 0, it adds ceil(s) units and subtracts s: the node's
\* working stock afterwards is ceil(s) - s, a value in [0, 1), and its
\* recorded change is that surplus minus the existing stock consumed.
C12_RoundingSurplus ==
  (/\ call.op = "ensure" /\ call.canProduce
   /\ IsComposite(call.nodeId)
   /\ Shortfall(call.nodeId, call.needed) > 0) =>
    /\ Get(call.availableStock, call.nodeId)
         = WholeUnitsCovering(Shortfall(call.nodeId, call.needed)) * Scale
             - Shortfall(call.nodeId, call.needed)
    /\ Get(call.availableStock, call.nodeId) >= 0
    /\ Get(call.availableStock, call.nodeId) < Scale
    /\ Get(call.stockChanges, call.nodeId)
         = Get(call.availableStock, call.nodeId) - Get(stock0, call.nodeId)

\* 1.5 recipe_r needed with none in stock: 2 are produced, 0.5 is left
C12_Witness ==
  /\ call.op = "ensure" /\ call.canProduce
  /\ graph = GraphTest /\ call.nodeId = "recipe_r"
  /\ call.needed = 3 * (Scale \div PDen)
  /\ Get(stock0, "recipe_r") = 0
  /\ Get(call.availableStock, "recipe_r") = Scale \div PDen

\* the stock of scenario 1
ScenarioOneStock == [c \in {"ing_a"} |-> 20 * Scale]

ScenarioOne ==
  /\ call.op = "simulate"
  /\ graph = GraphSurplus /\ stock0 = ScenarioOneStock
  /\ call.nodeId = "product_p1" /\ call.quantity = 1

OutcomeDelta(nodeId) ==
  call.stockOutcome[nodeId].after - call.stockOutcome[nodeId].before

\* C13 as stated: with recipe_r needing 2 ing_a, product_p1 needing 1.5
\* recipe_r and stock {ing_a: 20}, simulating 1 product_p1 is feasible,
\* consumes 8 ing_a, produces 1 product_p1 and leaves 0.5 recipe_r.
C13_ScenarioOneAsStated ==
  ScenarioOne =>
    /\ call.canProduce
    /\ OutcomeDelta("ing_a") = 0 - 8 * Scale
    /\ OutcomeDelta("product_p1") = 1 * Scale
    /\ OutcomeDelta("recipe_r") = Scale \div PDen

\* C13: in that scenario the simulation is feasible, consumes 4 ing_a (2
\* recipe_r produced, 2 ing_a each), produces 1 product_p1 and leaves 0.5
\* recipe_r.
C13_ScenarioOne ==
  ScenarioOne =>
    /\ call.canProduce
    /\ DOMAIN call.stockOutcome = {"ing_a", "recipe_r", "product_p1"}
    /\ OutcomeDelta("ing_a") = 0 - 4 * Scale
    /\ OutcomeDelta("product_p1") = 1 * Scale
    /\ OutcomeDelta("recipe_r") = Scale \div PDen
    /\ call.requiredInputs["ing_a"].quantity = 4 * Scale

C13_Witness == ScenarioOne /\ call.canProduce /\ ~call.threw

\* C14: whenever simulateProduction reports quantity Q feasible, the
\* stockOutcome entry of the target has before = the caller's stock of the
\* target and after = before + Q, whatever target stock already existed.
C14_RootAdditive ==
  (call.op = "simulate" /\ call.canProduce) =>
    /\ call.nodeId \in DOMAIN call.stockOutcome
    /\ call.stockOutcome[call.nodeId].before = Get(stock0, call.nodeId)
    /\ call.stockOutcome[call.nodeId].after
         = Get(stock0, call.nodeId) + call.quantity * Scale

\* a feasible production of a target that already holds stock
C14_Witness ==
  /\ call.op = "simulate" /\ call.canProduce
  /\ Get(stock0, call.nodeId) > 0
  /\ call.quantity > 1

\* C15: when production is infeasible because an ingredient is short,
\* simulateProduction returns canProduce = false without raising, and
\* requiredInputs holds an entry with sufficient = false for an ingredient.
C15_ShortfallReported ==
  (call.op = "simulate" /\ call.error = "insufficient") =>
    /\ ~call.threw
    /\ ~call.canProduce
    /\ \E c \in DOMAIN call.requiredInputs : ~call.requiredInputs[c].sufficient

\* C16: simulateProduction raises whenever the target or a Portion reached
\* during the expansion names a node absent from the graph, and whenever the
\* produced-but-still-short check fails.
C16_StructuralErrorsRaise ==
  (call.op = "simulate" /\ call.error \in {"not_found", "internal"}) => call.threw

\* C20: an execution or a rollback whose atomic commit is rejected reports
\* failure with the "Failed to commit" error, changes no stock quantity,
\* creates no order record and deletes none.
C20_AllOrNothing ==
  [][last'.error = "commit_failed" =>
       /\ ~last'.success
       /\ stock' = stock
       /\ orders' = orders
       /\ nextOrderId' = nextOrderId]_vars

\* a rejected commit of the rollback of a stored order, which is still there
C20_Witness ==
  /\ last.op = "rollback" /\ last.error = "commit_failed"
  /\ last.hadOrder /\ last.orderId \in DOMAIN orders
  /\ IngredientRequirements(graph, last.order.targetNodeId, last.order.quantity) # EmptyMap

\* the nodes and the edges of the graph as sets, edges read from Graph.edges
NodeSet(g) == {g.nodes[i] : i \in DOMAIN g.nodes}

EdgePairs(g) ==
  {p \in DagNodeIds \X DagNodeIds :
     \E n \in DOMAIN g.edges : \E i \in DOMAIN g.edges[n] :
       g.edges[n][i].from = p[1] /\ g.edges[n][i].to = p[2]}

RECURSIVE ReachableFrom(_, _)

\* the nodes reachable from the set S along the edges E, S included
ReachableFrom(E, S) ==
  IF {p[2] : p \in {q \in E : q[1] \in S}} \subseteq S THEN S
  ELSE ReachableFrom(E, S \cup {p[2] : p \in {q \in E : q[1] \in S}})

\* the cases in which addEdge must refuse
MustReject(g, from, to) ==
  \/ from \notin NodeSet(g)
  \/ to \notin NodeSet(g)
  \/ from = to
  \/ <<from, to>> \in EdgePairs(g)
  \/ from \in ReachableFrom(EdgePairs(g), {to})

PositionIn(result, nodeId) == CHOOSE i \in DOMAIN result : result[i] = nodeId

\* C18: after any sequence of addNode, addEdge, removeEdge and removeNode
\* from the empty graph, the graph has no directed cycle, edges and
\* reverseEdges hold the same edges between existing nodes, and
\* topologicalSort does not throw and returns every node exactly once with
\* the from node of every edge before its to node.
C18_Acyclic ==
  /\ \A n \in DagNodeIds :
       n \notin ReachableFrom(EdgePairs(dag), {p[2] : p \in {q \in EdgePairs(dag) : q[1] = n}})
  /\ EdgePairs(dag) \subseteq NodeSet(dag) \X NodeSet(dag)
  /\ EdgePairs(dag) =
       {p \in DagNodeIds \X DagNodeIds :
          \E n \in DOMAIN dag.reverseEdges : \E i \in DOMAIN dag.reverseEdges[n] :
            dag.reverseEdges[n][i].from = p[1] /\ dag.reverseEdges[n][i].to = p[2]}
  /\ ~topologicalSort(dag).threw
  /\ Len(topologicalSort(dag).result) = Len(dag.nodes)
  /\ {topologicalSort(dag).result[i] : i \in DOMAIN topologicalSort(dag).result}
       = NodeSet(dag)
  /\ \A p \in EdgePairs(dag) :
       PositionIn(topologicalSort(dag).result, p[1])
         < PositionIn(topologicalSort(dag).result, p[2])

\* a sort of a three-node chain entered against the insertion order
C18_Witness ==
  /\ call.op = "topologicalSort" /\ ~call.threw
  /\ Cardinality(EdgePairs(dag)) >= 2
  /\ \E p \in EdgePairs(dag) : PositionIn(dag.nodes, p[1]) > PositionIn(dag.nodes, p[2])

RECURSIVE FreshCost(_)
RECURSIVE FreshTime(_)

\* the cost of a node on the current graph, computed without any cache
FreshCost(nodeId) ==
  IF graph.nodes[nodeId].type = "ingredient"
  THEN IF nodeAttrs[nodeId].packageSize = 0 THEN 0
       ELSE (nodeAttrs[nodeId].packagePrice * Scale) \div nodeAttrs[nodeId].packageSize
  ELSE LET inputs == graph.nodes[nodeId].inputs
           Term(i) == (inputs[i].quantity * FreshCost(inputs[i].nodeId)) \div PDen
           Sum[i \in 0 .. Len(inputs)] == IF i = 0 THEN 0 ELSE Sum[i - 1] + Term(i)
       IN Sum[Len(inputs)]

\* the time of a node on the current graph, computed without any cache
FreshTime(nodeId) ==
  IF graph.nodes[nodeId].type = "ingredient" THEN 0
  ELSE LET inputs == graph.nodes[nodeId].inputs
           Term(i) == (inputs[i].quantity * FreshTime(inputs[i].nodeId)) \div PDen
           Sum[i \in 0 .. Len(inputs)] == IF i = 0 THEN 0 ELSE Sum[i - 1] + Term(i)
       IN Sum[Len(inputs)]
            + (nodeAttrs[nodeId].fabricationTime + nodeAttrs[nodeId].productionTime) * Scale

\* C11: a simulateProduction call returns the totalCost and totalTime of the
\* graph it is given, whatever calls ran before it in the process.
C11_Deterministic ==
  (call.op = "simulate" /\ call.canProduce) =>
    /\ call.totalCost = FreshCost(call.nodeId) * call.quantity
    /\ call.totalTime = FreshTime(call.nodeId) * call.quantity

\* C19: right after invalidate(X) the cache holds no entry for X nor one
\* computed from X; and while every changed node has been invalidated, every
\* cached entry and every returned result equals a fresh computation on the
\* current graph.
C19_Invalidation ==
  /\ call.op = "invalidate" =>
       \A n \in DOMAIN globalCache.cache :
         n # call.nodeId /\ call.nodeId \notin globalCache.cache[n].readNodes
  /\ changed = {} =>
       /\ \A n \in DOMAIN globalCache.cache :
            /\ globalCache.cache[n].cost = FreshCost(n)
            /\ globalCache.cache[n].time = FreshTime(n)
       /\ call.op = "calculateNodeCost" =>
            /\ call.totalCost = FreshCost(call.nodeId)
            /\ call.totalTime = FreshTime(call.nodeId)

\* an edit of ing_a, invalidate(ing_a), then a recomputation of a product
\* that had been cached before the edit
C19_Witness ==
  /\ call.op = "calculateNodeCost" /\ call.nodeId = "product_p1"
  /\ changed = {}
  /\ nodeAttrs["ing_a"].packagePrice # InitialAttrs["ing_a"].packagePrice
  /\ "product_p2" \in DOMAIN globalCache.cache
  /\ graph = GraphSurplus

\* getMaxProducibleQuantity(graph, nodeId, stock) with the default bound
MaxProducible(nodeId, currentStock) ==
  getMaxProducibleQuantity(graph, nodeId, currentStock, MaxBoundCap).value

\* C21: executing Q units of a target and then immediately rolling that order
\* back leaves getMaxProducibleQuantity of the target equal to its value
\* before the execution, also with a fractional Portion and after any number
\* of such cycles.
C21_MaxProducibleRestored ==
  (SuccessfulRollback /\ last.immediate) =>
    MaxProducible(Target, stock) = MaxProducible(Target, last.preExec)

\* the step is a successful rollback of an order of bolo on the graph whose
\* target consumes its ingredient directly, 1 per unit
PartialUndoStep ==
  /\ graph = GraphDirect
  /\ last'.op = "rollback" /\ last'.success
  /\ last'.order.targetNodeId = "bolo"

\* C22: where the target consumes an ingredient directly at 1 unit per unit,
\* rolling back one of several executed orders (quantity q) restores exactly q
\* units of the ingredient, removes exactly q units of the target, leaves the
\* other orders in place, and getMaxProducibleQuantity afterwards equals the
\* ingredient stock left before the rollback plus q.
C22_PartialUndo ==
  [][PartialUndoStep =>
       /\ Get(stock', "ing_bolo") = Get(stock, "ing_bolo") + last'.order.quantity
       /\ Get(stock', "bolo") = Get(stock, "bolo") - last'.order.quantity
       /\ orders' = [o \in (DOMAIN orders) \ {last'.orderId} |-> orders[o]]
       /\ MaxProducible("bolo", stock') * Scale
            = Get(stock, "ing_bolo") + last'.order.quantity]_vars

\* three orders executed, the middle one rolled back while the two others
\* stay: max producible is that order's quantity, not the initial 6
C22_Witness ==
  /\ graph = GraphDirect /\ SuccessfulRollback
  /\ Len(executed) = 3 /\ last.orderId = 2
  /\ DOMAIN orders = {1, 3}
  /\ Get(last.before, "ing_bolo") < 2 * Scale
  /\ MaxProducible("bolo", stock) * Scale
       = Get(last.before, "ing_bolo") + last.order.quantity
  /\ MaxProducible("bolo", stock) < 6

\* C30: for every bound passed as maxBound, 0 included, the result of
\* getMaxProducibleQuantity is at most min(maxBound, 1000000).
C30_BoundRespected ==
  call.op = "getMax" => call.value <= Min(call.maxBound, MaxBoundCap)

InputIds(nodeId) ==
  {graph.nodes[nodeId].inputs[i].nodeId : i \in DOMAIN graph.nodes[nodeId].inputs}

\* a successful ensureConsumable call on a recipe/product
EnsuredComposite ==
  call.op = "ensure" /\ call.canProduce /\ IsComposite(call.nodeId)

\* the units produced by the call: the node's change plus what was consumed
ProducedUnits == Get(call.stockChanges, call.nodeId) + call.needed

\* the validation script's stock with one p1 on hand
StockWithP1 == [c \in {"a", "p1"} |-> IF c = "a" THEN 10 * Scale ELSE 1 * Scale]

\* C25: when ensureConsumable needs n of a recipe/product whose stock is e,
\* it takes min(e, n) from stock and produces only ceil(n - min(e, n)) units;
\* if e >= n nothing is produced and no input is consumed.  With p2 needing
\* 2 p1, p1 needing 1.5 r, r needing 2 a and stock {a: 10, p1: 1}, producing
\* 1 p2 requires exactly 4 a.
C25_StockFirst ==
  /\ EnsuredComposite =>
       /\ ProducedUnits
            = WholeUnitsCovering(Shortfall(call.nodeId, call.needed)) * Scale
       /\ Get(call.availableStock, call.nodeId)
            = Get(stock0, call.nodeId) - call.needed + ProducedUnits
       /\ Shortfall(call.nodeId, call.needed) = 0 =>
            /\ DOMAIN call.stockChanges = {call.nodeId}
            /\ \A n \in DOMAIN call.availableStock \ {call.nodeId} :
                 call.availableStock[n] = Get(stock0, n)
       /\ InputIds(call.nodeId) \subseteq IngredientIds(graph) =>
            \A i \in DOMAIN graph.nodes[call.nodeId].inputs :
              Get(call.stockChanges, graph.nodes[call.nodeId].inputs[i].nodeId)
                = 0 - MulPortion(graph.nodes[call.nodeId].inputs[i].quantity, ProducedUnits)
  /\ (/\ call.op = "simulate" /\ graph = GraphChain /\ stock0 = StockWithP1
      /\ call.nodeId = "p2" /\ call.quantity = 1) =>
       /\ call.canProduce
       /\ call.requiredInputs["a"].quantity = 4 * Scale
       /\ OutcomeDelta("p1") = 0 - 1 * Scale

\* 1.5 recipe_r needed with 0.5 on hand: 0.5 is taken from stock, 1 unit is
\* produced from 2 ing_a
C25_Witness ==
  /\ EnsuredComposite
  /\ graph = GraphTest /\ call.nodeId = "recipe_r"
  /\ Get(stock0, "recipe_r") = Scale \div PDen
  /\ call.needed = 3 * (Scale \div PDen)
  /\ ProducedUnits = 1 * Scale
  /\ Get(call.stockChanges, "ing_a") = 0 - 2 * Scale

\* C26: with p2 needing 2 p1, p1 needing 1.5 r, r needing 2 a and stock
\* {a: 10} only, simulateProduction(p2, 1) reports a required quantity of
\* exactly 8 a: the fractional requirement is rounded up per produced parent
\* unit, not once on the total of 3 r.
C26_ChainRounding ==
  (/\ call.op = "simulate" /\ graph = GraphChain
   /\ stock0 = [c \in {"a"} |-> 10 * Scale]
   /\ call.nodeId = "p2" /\ call.quantity = 1) =>
    /\ call.canProduce
    /\ call.requiredInputs["a"].quantity = 8 * Scale

C27_Termination ==
  call.op = "costing" =>
    \A i, j \in DOMAIN call.stack :
      call.stack[i].nodeId = call.stack[j].nodeId => i = j

\* a successful atomic.commit() of client c in this step
Commits(c) ==
  /\ procs[c].pc = "commit"
  /\ procs'[c].pc \in {"saveOrder", "delete"}

\* C23: a call reads current stock, decides and writes with awaits in between
\* and no version check, so whatever another call committed meanwhile, a
\* commit persists for every node it touches the quantity computed from the
\* call's own earlier read; two interleaved calls on one node can thus both
\* commit from the same read and the node keeps the delta of only one of them.
C23_LostUpdate ==
  [][\A c \in Clients :
       Commits(c) =>
         \A n \in DOMAIN procs[c].writes :
           /\ stock'[n] = procs[c].writes[n]
           /\ procs[c].op = "execute" =>
                stock'[n] = procs[c].read[n] + procs[c].updates[n]]_vars

\* two executions have both succeeded and nothing was rolled back, yet the
\* ingredient holds the delta of the first order only
C23_Witness ==
  /\ Len(executed) = 2
  /\ rolledBack = {}
  /\ \A c \in Clients : procs[c].pc = "idle"
  /\ executed[2].stockDeltas["ing_bolo"] < 0
  /\ stock["ing_bolo"] = stock0["ing_bolo"] + executed[1].stockDeltas["ing_bolo"]

\* C24: for any interleaving of two rollback calls of one order id, the
\* order's stock effect is applied at most once: a rollback that commits for
\* an order whose rollback has already committed changes no stock.
C24_ExactlyOnce ==
  [][\A c \in Clients :
       (Commits(c) /\ procs[c].op = "rollback" /\ procs[c].order.id \in rolledBack)
         => stock' = stock]_vars

====
